---------------------------- MODULE Spec2Model ----------------------------
(***************************************************************************)
(* Model of pyrevitlib/pyrevit/revit/db/query.py: query helpers over the   *)
(* host's documents.  The host documents are the state; the host mutates   *)
(* them; every query is one action that reads them and leaves its outcome  *)
(* (a value or a raised exception) in `ret`.  Calls are synchronous: a     *)
(* call is made when no result is pending, and the caller drops the result *)
(* (Discard) before the host or the caller goes on.  The modelled elements *)
(* are instances, not element types.                                       *)
(***************************************************************************)
EXTENDS Integers, Sequences, FiniteSets, TLC

VARIABLES
    active,      \* HOST_APP.doc: the host's active document
    elements,    \* all elements of all documents, in host enumeration order
    subcats,     \* per document: the subcategories of doc.Settings.Categories
    sheets,      \* the sheets of all documents, in host enumeration order
    placed,      \* the ScheduleSheetInstance elements of all documents
    isFamily,    \* per document: doc.IsFamilyDocument
    bindings,    \* per document: doc.ParameterBindings, in iteration order
    sharedFile,  \* the application's shared parameter file
    grids,       \* the grids of all documents, in host enumeration order
    linked,      \* per document: the documents of its RevitLinkInstances
    pathKind,    \* per document: what doc.PathName is to the host
    extrefs,     \* per document: the external file references last saved
    famTypes,    \* per document: the names of FamilyManager.Types, in order
    famParams,   \* per document: the names of FamilyManager.GetParameters()
    worksets,    \* the worksets of all documents, in host enumeration order
    views,       \* the views of all documents, in host enumeration order
    ret,         \* the last query call: its name, arguments and outcome
    kept,        \* a result the caller holds on to, and the documents then
    frame        \* the local variables of a query call that is running

catVars == <<elements, subcats>>
sheetVars == <<sheets, placed>>
projVars == <<isFamily, bindings, sharedFile>>
gridVars == <<grids, linked>>
linkVars == <<pathKind, extrefs>>
famVars == <<famTypes, famParams>>
docVars == <<active, catVars, sheetVars, projVars, gridVars, linkVars,
             famVars, worksets, views>>
callerVars == <<kept, frame>>
vars == <<docVars, ret, callerVars>>

(***************************************************************************)
(* Bounds of the model.                                                    *)
(***************************************************************************)
MaxElems == 2
MaxSubCats == 1
MaxSheets == 2
MaxBindings == 2
MaxGrids == 3
MaxRefs == 2
MaxViewports == 1
MaxPlaced == 2
MaxFamItems == 2
MaxViews == 2
MaxViewRefs == 1
MaxWorksets == 2

(***************************************************************************)
(* Python values.                                                          *)
(***************************************************************************)
Docs == {"D1", "D2"}
NoDoc == "None"
DocArgs == Docs \cup {NoDoc}

None == [none |-> TRUE]
NoArgs == [none |-> TRUE]

Returned(v) == [exc |-> "", val |-> v]
Raised(e) == [exc |-> e, val |-> None]

NoCall == [op |-> "", args |-> NoArgs, out |-> Returned(None)]

\* the caller holds on to no result; no call is running
NoKept == [call |-> NoCall]
NoFrame == [pc |-> "idle"]

\* `doc or HOST_APP.doc`: a document object is truthy, None is not.
DocOr(doc, act) == IF doc = NoDoc THEN act ELSE doc

\* all lists of distinct members of the finite set S
ListsOf(S) ==
    {s \in UNION {[1..k -> S] : k \in 0..Cardinality(S)} :
        \A i, j \in 1..Len(s) : s[i] = s[j] => i = j}

(***************************************************************************)
(* Categories.  Every document holds the host's built-in top-level         *)
(* categories (negative ids, the values of DB.BuiltInCategory); the        *)
(* subcategories are the document's own (positive ids).                    *)
(***************************************************************************)
BuiltInCategory == {-2000011, -2000023}
TopCategories ==
    << [Name |-> "Walls", Id |-> -2000011],
       [Name |-> "Doors", Id |-> -2000023] >>
SubCatNames == {"Walls", "Trim"}
\* the element_bicats lists the calls are made with
BicatLists == {{-2000011}, {-2000011, -2000023}}

\* x.Category of an element that has none
NoCategory == [none |-> TRUE]

get_doc_categories(cats, doc) == TopCategories \o cats[doc]

RECURSIVE FirstNamed(_, _, _)
FirstNamed(all_cats, name, i) ==
    IF i > Len(all_cats) THEN None
    ELSE IF all_cats[i].Name = name THEN all_cats[i]
    ELSE FirstNamed(all_cats, name, i + 1)

\* get_category with a category name: the `doc` argument is rebound but the
\* categories are read by get_doc_categories(), i.e. from the active document.
get_category(cats, act, cat_name, doc) ==
    FirstNamed(get_doc_categories(cats, act), cat_name, 1)

\* get_builtincategory with a category name; the inner get_category call
\* passes no document.
get_builtincategory(cats, act, cat_name, doc) ==
    LET cat == get_category(cats, act, cat_name, NoDoc)
        cat_id == IF cat = None THEN 0 ELSE cat.Id
    IN  IF cat_id # 0 /\ cat_id \in BuiltInCategory
        THEN [bicat |-> cat_id]
        ELSE None

(***************************************************************************)
(* Elements.                                                               *)
(***************************************************************************)
NoParam == [none |-> TRUE]

ElementsOf(els, doc) == SelectSeq(els, LAMBDA e : e.doc = doc)

\* the categories an element of document d can carry
ElementCategories(cats, d) ==
    {NoCategory} \cup {get_doc_categories(cats, d)[i] :
                          i \in 1..Len(get_doc_categories(cats, d))}

\* FilteredElementCollector(doc).WherePasses(LogicalOrFilter of
\* ElementCategoryFilter).WhereElementIsNotElementType().ToElements()
CollectByCategory(els, doc, element_bicats) ==
    SelectSeq(ElementsOf(els, doc),
              LAMBDA e : /\ e.Category # NoCategory
                         /\ e.Category.Id \in element_bicats)

get_elements_by_category(els, cats, act, element_bicats, given, doc) ==
    IF given.given /\ Len(given.items) > 0
    THEN IF \E i \in 1..Len(given.items) : given.items[i].Category = NoCategory
         THEN Raised("AttributeError")
         ELSE Returned(SelectSeq(given.items,
                LAMBDA x :
                  LET b == get_builtincategory(cats, act, x.Category.Name, NoDoc)
                  IN  b # None /\ b.bicat \in element_bicats))
    ELSE Returned(CollectByCategory(els, DocOr(doc, act), element_bicats))

(***************************************************************************)
(* Parameters.  A Python value is its type and its text (the sequence of   *)
(* the characters of str(value)).  A parameter has a name, a storage type  *)
(* and the value its As<Type>() accessor returns.                          *)
(***************************************************************************)
PyNone == [t |-> "NoneType", v |-> <<"N", "o", "n", "e">>]
PyStr(s) == [t |-> "str", v |-> s]
PyInt(n) == [t |-> "int", v |-> n]
PyFloat(n) == [t |-> "float", v |-> n]
PyElementId(n) == [t |-> "ElementId", v |-> n]

\* Python's == between a str and a value of any of the types above
StrEq(s, value) == value.t = "str" /\ value.v = s

\* Python's `sub in s` on two strings
Contains(sub, s) ==
    \E i \in 0..(Len(s) - Len(sub)) : SubSeq(s, i + 1, i + Len(sub)) = sub

ParamNames == {"P", "Q"}
ParamValues ==
    { [StorageType |-> "String", Value |-> PyNone],
      [StorageType |-> "String", Value |-> PyStr(<<"a">>)],
      [StorageType |-> "String", Value |-> PyStr(<<"a", "b">>)],
      [StorageType |-> "Double", Value |-> PyFloat(<<"1", ".", "0">>)],
      [StorageType |-> "Integer", Value |-> PyInt(<<"1">>)],
      [StorageType |-> "ElementId", Value |-> PyElementId(<<"1">>)],
      [StorageType |-> "None", Value |-> PyNone] }
\* the parameters the modelled elements carry: all are the parameter "P",
\* whose definition has id 1
Params ==
    {[Name |-> "P", Id |-> 1,
      StorageType |-> pv.StorageType, Value |-> pv.Value] : pv \in ParamValues}
QueryStrings == {<<>>, <<"a">>, <<"a", "b">>}

\* element.LookupParameter(param_name): the parameter, or None
LookupParameter(element, param_name) ==
    IF element.Param # NoParam /\ element.Param.Name = param_name
    THEN element.Param
    ELSE NoParam

\* no branch assigns `value` for a storage type outside the four tested
get_param_value(targetparam) ==
    IF targetparam.StorageType \in {"Double", "Integer", "String", "ElementId"}
    THEN Returned(targetparam.Value)
    ELSE Raised("UnboundLocalError")

get_all_elements(els, act, doc) == ElementsOf(els, DocOr(doc, act))

\* a variant in which the exact mode also accepts a containing value
get_elements_by_parameter_substring(els, act, param_name, param_value, doc, partial) ==
    LET all == ElementsOf(els, DocOr(doc, act))
        Has(e) == LookupParameter(e, param_name) # NoParam
        Val(e) == get_param_value(LookupParameter(e, param_name))
    IN  IF \E i \in 1..Len(all) : Has(all[i]) /\ Val(all[i]).exc # ""
        THEN Raised("UnboundLocalError")
        ELSE Returned(SelectSeq(all,
               LAMBDA e :
                 /\ Has(e)
                 /\ Val(e).val.t = "str"
                 /\ Contains(param_value, Val(e).val.v)))

get_elements_by_parameter(els, act, param_name, param_value, doc, partial) ==
    LET all == get_all_elements(els, act, doc)
        Has(e) == LookupParameter(e, param_name) # NoParam
        Val(e) == get_param_value(LookupParameter(e, param_name))
    IN  IF \E i \in 1..Len(all) : Has(all[i]) /\ Val(all[i]).exc # ""
        THEN Raised("UnboundLocalError")
        ELSE Returned(SelectSeq(all,
               LAMBDA e :
                 /\ Has(e)
                 /\ \/ /\ partial
                       /\ Val(e).val # PyNone
                       /\ Val(e).val.t = "str"
                       /\ Contains(param_value, Val(e).val.v)
                    \/ StrEq(param_value, Val(e).val)))

(***************************************************************************)
(* Sheets.  A sheet is an element of its document (ids are per document);  *)
(* it holds the ids of its viewports.  A ScheduleSheetInstance sits on the *)
(* view OwnerViewId of its document and shows the schedule ScheduleId,     *)
(* whose IsTitleblockRevisionSchedule is kept with the instance.           *)
(***************************************************************************)
SheetNumbers == {"A1", "A2"}
QueryNumbers == SheetNumbers \cup {"A9"}

SheetsOf(shs, doc) == SelectSeq(shs, LAMBDA x : x.doc = doc)

\* a reference to an element of a document
Ref(x) == [doc |-> x.doc, Id |-> x.Id]

SheetRefs == {Ref(sheets[i]) : i \in 1..Len(sheets)}

\* the sheet a reference points to
SheetAt(shs, ref) ==
    shs[CHOOSE i \in 1..Len(shs) : Ref(shs[i]) = ref]

get_sheets(shs, act, include_placeholders, include_noappear, doc) ==
    LET all == SheetsOf(shs, DocOr(doc, act))
        appearing == IF include_noappear THEN all
                     ELSE SelectSeq(all, LAMBDA x : x.Scheduled)
    IN  IF include_placeholders THEN appearing
        ELSE SelectSeq(appearing, LAMBDA x : ~x.IsPlaceholder)

\* next((x for x in found), None) taking the last match instead of the first
get_sheet_by_number_last(shs, act, sheet_num, doc) ==
    LET found == SelectSeq(get_sheets(shs, act, TRUE, TRUE, DocOr(doc, act)),
                           LAMBDA x : x.SheetNumber = sheet_num)
    IN  IF found = <<>> THEN Returned(None) ELSE Returned(Ref(found[Len(found)]))

get_sheet_by_number(shs, act, sheet_num, doc) ==
    LET found == SelectSeq(get_sheets(shs, act, TRUE, TRUE, DocOr(doc, act)),
                           LAMBDA x : x.SheetNumber = sheet_num)
    IN  IF found = <<>> THEN Returned(None) ELSE Returned(Ref(Head(found)))

\* get_schedules_on_sheet reading the instances of every open document
get_schedules_on_sheet_anydoc(pl, viewsheet, doc) ==
    SelectSeq(pl, LAMBDA x : /\ x.OwnerViewId = viewsheet.Id
                             /\ ~x.IsTitleblockRevisionSchedule)

get_schedules_on_sheet(pl, viewsheet, doc) ==
    SelectSeq(SelectSeq(pl, LAMBDA x : x.doc = doc),
              LAMBDA x : /\ x.OwnerViewId = viewsheet.Id
                         /\ ~x.IsTitleblockRevisionSchedule)

\* viewsheet is a reference; its viewports are read from the document
is_sheet_empty(shs, pl, viewsheet) ==
    LET sheet_views == SheetAt(shs, viewsheet).Viewports
        sheet_scheds == get_schedules_on_sheet(pl, viewsheet, viewsheet.doc)
    IN  IF sheet_views # <<>> \/ sheet_scheds # <<>>
        THEN Returned(FALSE)
        ELSE Returned(TRUE)

(***************************************************************************)
(* Project parameters.  The shared parameter file of the application is    *)
(* "undefined" (no file name set), "unopenable" (OpenSharedParameterFile   *)
(* returns nothing) or "open"; an open file defines SharedDefinitions.     *)
(***************************************************************************)
SharedFileStates == {"undefined", "unopenable", "open"}
SharedDefinitions == <<[Name |-> "P", External |-> TRUE]>>

get_sharedparam_definition_file(sf) ==
    IF sf # "undefined"
    THEN IF sf = "open" THEN Returned(SharedDefinitions)
         ELSE Raised("PyRevitException")
    ELSE Raised("PyRevitException")

\* a variant that answers with the definitions of the file whatever its state
get_defined_sharedparams_any(sf) == SharedDefinitions

\* the PyRevitException of get_sharedparam_definition_file is caught and logged
get_defined_sharedparams(sf) ==
    LET f == get_sharedparam_definition_file(sf)
    IN  IF f.exc = "" THEN f.val ELSE <<>>

\* shared_params.get(name, None)
SharedParamGet(shared, name) ==
    IF \E i \in 1..Len(shared) : shared[i].Name = name
    THEN shared[CHOOSE i \in 1..Len(shared) : shared[i].Name = name]
    ELSE None

\* db.ProjectParameter(key, binding, param_ext_def=...)
ProjectParameter(key, ext) ==
    [name |-> key.Name, param_id |-> key.Id, param_ext_def |-> ext]

get_project_parameters(fam, binds, sf, act, doc) ==
    LET shared_params == get_defined_sharedparams(sf)
        d == DocOr(doc, act)
    IN  IF ~fam[d]
        THEN [i \in 1..Len(binds[d]) |->
                ProjectParameter(binds[d][i],
                                 SharedParamGet(shared_params, binds[d][i].Name))]
        ELSE <<>>

\* a variant that falls off the loop and returns None
get_project_parameter_id_none(fam, binds, sf, act, param_name) ==
    LET pps == SelectSeq(get_project_parameters(fam, binds, sf, act, NoDoc),
                         LAMBDA x : x.name = param_name)
    IN  IF pps # <<>> THEN Returned([id |-> Head(pps).param_id])
        ELSE Returned(None)

\* reads the project parameters of the active document: no doc is passed
get_project_parameter_id(fam, binds, sf, act, param_name) ==
    LET pps == SelectSeq(get_project_parameters(fam, binds, sf, act, NoDoc),
                         LAMBDA x : x.name = param_name)
    IN  IF pps # <<>> THEN Returned([id |-> Head(pps).param_id])
        ELSE Raised("PyRevitException")

\* FilteredElementCollector(doc).WherePasses(ElementParameterFilter(vrule)):
\* vrule is a case-sensitive FilterStringEquals on the parameter param_id;
\* the inverse rule passes every element the rule does not
CollectByParamValue(els, doc, param_id, param_value, inverse) ==
    SelectSeq(ElementsOf(els, doc),
        LAMBDA e :
            LET passes == /\ e.Param # NoParam
                          /\ e.Param.Id = param_id
                          /\ e.Param.StorageType = "String"
                          /\ StrEq(param_value, e.Param.Value)
            IN  IF inverse THEN ~passes ELSE passes)

\* an ElementId object is truthy: only None takes the else branch
get_elements_by_param_value(els, fam, binds, sf, act, param_name, param_value, inverse, doc) ==
    LET param_id == get_project_parameter_id(fam, binds, sf, act, param_name)
    IN  IF param_id.exc # "" THEN param_id
        ELSE IF param_id.val # None
        THEN Returned(CollectByParamValue(els, DocOr(doc, act), param_id.val.id,
                                          param_value, inverse))
        ELSE Returned(<<>>)

(***************************************************************************)
(* Grids.  A grid's Curve is a straight line a*x + b*y = c of the plan,    *)
(* long enough to meet every line it is not parallel to.  Curve.Intersect  *)
(* answers Equal for the same line, Disjoint for parallel lines, and       *)
(* Overlap with the one intersection point otherwise.                      *)
(***************************************************************************)
Line(a, b, c) == [a |-> a, b |-> b, c |-> c]
\* y = 0, x = 0, x + y = 2 (a triangle) and y = 2 (parallel to the first,
\* through a corner of the triangle)
Curves == {Line(0, 1, 0), Line(1, 0, 0), Line(1, 1, 2), Line(0, 1, 2)}

Det(l1, l2) == l1.a * l2.b - l2.a * l1.b

\* exact quotient of n by the non-zero d
Quot(n, d) == IF d > 0 THEN n \div d ELSE (-n) \div (-d)

Intersect(l1, l2) ==
    IF l1 = l2 THEN [res |-> "Equal", point |-> <<0, 0, 0>>]
    ELSE IF Det(l1, l2) = 0 THEN [res |-> "Disjoint", point |-> <<0, 0, 0>>]
    ELSE [res |-> "Overlap",
          point |-> << Quot(l1.c * l2.b - l2.c * l1.b, Det(l1, l2)),
                       Quot(l1.a * l2.c - l2.a * l1.c, Det(l1, l2)),
                       0 >>]

\* db.XYZPoint(xyz): hashed and compared by its coordinates
XYZPoint(xyz) == xyz

GridsOf(grs, doc) == SelectSeq(grs, LAMBDA g : g.doc = doc)

\* get_all_linkeddocs(): the link documents of the active document (the
\* call in get_all_grids passes no doc); NoDoc is an unloaded link
get_all_linkeddocs(lnk, act, doc) == lnk[DocOr(doc, act)]

RECURSIVE GridsOfDocs(_, _)
GridsOfDocs(grs, target_docs) ==
    IF target_docs = <<>> THEN <<>>
    ELSE (IF Head(target_docs) # NoDoc THEN GridsOf(grs, Head(target_docs))
          ELSE <<>>) \o GridsOfDocs(grs, Tail(target_docs))

\* the orders in which a set of documents may be iterated
Orders(S) == {o \in UNION {[1..k -> S] : k \in 0..Cardinality(S)} :
                 /\ Len(o) = Cardinality(S)
                 /\ \A x \in S : \E i \in 1..Len(o) : o[i] = x}

\* get_all_grids with group_by_direction=False; `order` is the iteration
\* order of the set of linked documents
get_all_grids(grs, lnk, act, include_linked_models, doc, order) ==
    LET target_docs == <<DocOr(doc, act)>> \o
                       (IF include_linked_models THEN order ELSE <<>>)
    IN  GridsOfDocs(grs, target_docs)

\* the dict gints after the pairs (grid1, grid2) up to number n of the
\* double loop, numbered row by row: a set of GridPoint(point, grids)
RECURSIVE Gints(_, _)
Gints(src, n) ==
    IF n = 0 THEN {}
    ELSE LET grid1 == src[((n - 1) \div Len(src)) + 1]
             grid2 == src[((n - 1) % Len(src)) + 1]
             intres == Intersect(grid1.Curve, grid2.Curve)
             before == Gints(src, n - 1)
         IN  IF intres.res = "Overlap"
             THEN {gp \in before : gp.point # XYZPoint(intres.point)}
                  \cup {[point |-> XYZPoint(intres.point),
                         grids |-> <<Ref(grid1), Ref(grid2)>>]}
             ELSE before

\* a variant that also records the pairs whose Intersect answers Equal
RECURSIVE GintsEqual(_, _)
GintsEqual(src, n) ==
    IF n = 0 THEN {}
    ELSE LET grid1 == src[((n - 1) \div Len(src)) + 1]
             grid2 == src[((n - 1) % Len(src)) + 1]
             intres == Intersect(grid1.Curve, grid2.Curve)
             before == GintsEqual(src, n - 1)
         IN  IF intres.res \in {"Overlap", "Equal"}
             THEN {gp \in before : gp.point # XYZPoint(intres.point)}
                  \cup {[point |-> XYZPoint(intres.point),
                         grids |-> <<Ref(grid1), Ref(grid2)>>]}
             ELSE before

GridPointsOf_equal(src) == GintsEqual(src, Len(src) * Len(src))

\* the loops of get_gridpoints over source_grids
GridPointsOf(src) == Gints(src, Len(src) * Len(src))

\* `grids or get_all_grids(...)`: an empty list is falsy like None
get_gridpoints(grs, lnk, act, given, include_linked_models, doc, order) ==
    LET source_grids ==
            IF given.given /\ given.items # <<>> THEN given.items
            ELSE get_all_grids(grs, lnk, act, include_linked_models,
                               DocOr(doc, act), order)
    IN  Returned(GridPointsOf(source_grids))

(***************************************************************************)
(* Links.  doc.PathName is "empty" for a document never saved; a non-empty *)
(* path is "saved" (the host converts it to a model path), "unconvertible" *)
(* (ConvertUserVisiblePathToModelPath returns nothing) or "rejected" (the  *)
(* conversion throws).  A call's `fault` names the host call that throws   *)
(* when the call reaches it.  The outcome of get_links also records the    *)
(* host calls made (calls) and the host call that threw (failed).          *)
(***************************************************************************)
PathKinds == {"empty", "saved", "unconvertible", "rejected"}
RefKinds == { [Type |-> "RevitLink", Loaded |-> TRUE],
              [Type |-> "RevitLink", Loaded |-> FALSE],
              [Type |-> "CADLink", Loaded |-> TRUE] }
LinkTypes == {"RevitLink", "CADLink"}
NoLinkType == "None"
Faults == {"", "ReadTransmissionData", "GetLastSavedReferenceData",
           "GetElement", "ExternalRef"}

\* the model path of a saved document
ModelPath(d) == [path |-> d]

Outcome(exc, val, calls, failed) ==
    [exc |-> exc, val |-> val, calls |-> calls, failed |-> failed]

\* raise PyRevitException('Error reading links from model path: {} | {}')
ReadError(model_path, data_err, calls) ==
    Outcome("PyRevitException",
            [model_path |-> model_path, data_err |-> data_err], calls, data_err)

\* the loop over external_refs, from reference number i on
RECURSIVE LinksLoop(_, _, _, _, _, _, _)
LinksLoop(refs, i, d, linktype, fault, links, calls) ==
    IF i > Len(refs) THEN Outcome("", links, calls, "")
    ELSE LET c1 == Append(calls, "GetLastSavedReferenceData")
             c2 == Append(c1, "GetElement")
             c3 == Append(c2, "ExternalRef")
             wanted == linktype = NoLinkType \/ refs[i].Type = linktype
             ext == [id |-> refs[i].Id, Type |-> refs[i].Type,
                     Loaded |-> refs[i].Loaded]
         IN  IF fault = "GetLastSavedReferenceData"
             THEN ReadError(ModelPath(d), fault, c1)
             ELSE IF fault = "GetElement"
             THEN ReadError(ModelPath(d), fault, c2)
             ELSE IF ~wanted
             THEN LinksLoop(refs, i + 1, d, linktype, fault, links, c2)
             ELSE IF fault = "ExternalRef"
             THEN ReadError(ModelPath(d), fault, c3)
             ELSE LinksLoop(refs, i + 1, d, linktype, fault,
                            Append(links, ext), c3)

\* the try block of get_links
ReadLinks(refs, d, linktype, fault) ==
    LET calls == <<"ConvertUserVisiblePathToModelPath", "ReadTransmissionData">>
    IN  IF fault = "ReadTransmissionData"
        THEN ReadError(ModelPath(d), fault, calls)
        ELSE LinksLoop(refs[d], 1, d, linktype, fault, <<>>, calls)

\* a variant without the `if not model_path` test: the host's reading of
\* the transmission data then fails on the missing model path
get_links_unchecked(paths, refs, act, linktype, doc, fault) ==
    LET d == DocOr(doc, act)
        conv == <<"ConvertUserVisiblePathToModelPath">>
    IN  IF paths[d] = "empty"
        THEN Outcome("PyRevitException", None, <<>>, "")
        ELSE IF paths[d] = "rejected"
        THEN Outcome("ArgumentException", None, conv,
                     "ConvertUserVisiblePathToModelPath")
        ELSE IF paths[d] = "unconvertible"
        THEN ReadError(None, "ReadTransmissionData",
                       Append(conv, "ReadTransmissionData"))
        ELSE ReadLinks(refs, d, linktype, fault)

\* the conversion of the path runs before the try block: what it throws is
\* not caught
get_links(paths, refs, act, linktype, doc, fault) ==
    LET d == DocOr(doc, act)
        conv == <<"ConvertUserVisiblePathToModelPath">>
    IN  IF paths[d] = "empty"
        THEN Outcome("PyRevitException", None, <<>>, "")
        ELSE IF paths[d] = "rejected"
        THEN Outcome("ArgumentException", None, conv,
                     "ConvertUserVisiblePathToModelPath")
        ELSE IF paths[d] = "unconvertible"
        THEN Outcome("PyRevitException", None, conv, "")
        ELSE ReadLinks(refs, d, linktype, fault)

get_linked_models(paths, refs, act, doc, loaded_only, fault) ==
    LET linkedmodels == get_links(paths, refs, act, "RevitLink",
                                  DocOr(doc, act), fault)
    IN  IF linkedmodels.exc # "" THEN linkedmodels
        ELSE IF loaded_only
        THEN [linkedmodels EXCEPT
                !.val = SelectSeq(@, LAMBDA x : x.Loaded)]
        ELSE linkedmodels

(***************************************************************************)
(* The host's changes to its documents.                                    *)
(***************************************************************************)
HostActivate(d) ==
    /\ ret = NoCall
    /\ d # active
    /\ active' = d
    /\ UNCHANGED <<catVars, sheetVars, projVars, gridVars, linkVars,
                   famVars, worksets, views, ret, callerVars>>

HostAddSubCategory(d, name) ==
    /\ ret = NoCall
    /\ Len(subcats["D1"]) + Len(subcats["D2"]) < MaxSubCats
    /\ subcats' = [subcats EXCEPT
                     ![d] = Append(@, [Name |-> name, Id |-> Len(@) + 1])]
    /\ UNCHANGED <<active, elements, sheetVars, projVars, gridVars, linkVars,
                   famVars, worksets, views, ret, callerVars>>

\* an element of the given class is added to document d
HostAddElementOf(d, cat, param, class) ==
    /\ ret = NoCall
    /\ Len(elements) < MaxElems
    /\ cat \in ElementCategories(subcats, d)
    /\ elements' = Append(elements,
                          [doc |-> d, Id |-> Len(elements) + 1,
                           Category |-> cat, Param |-> param,
                           Class |-> class])
    /\ UNCHANGED <<active, subcats, sheetVars, projVars, gridVars, linkVars,
                   famVars, worksets, views, ret, callerVars>>

HostAddElement(d, cat, param) == HostAddElementOf(d, cat, param, "FamilyInstance")

HostAddSheet(d, num, placeholder, scheduled) ==
    /\ ret = NoCall
    /\ Len(sheets) < MaxSheets
    /\ sheets' = Append(sheets,
                        [doc |-> d, Id |-> Len(SheetsOf(sheets, d)) + 1,
                         SheetNumber |-> num, IsPlaceholder |-> placeholder,
                         Scheduled |-> scheduled, Viewports |-> <<>>])
    /\ UNCHANGED <<active, catVars, placed, projVars, gridVars, linkVars,
                   famVars, worksets, views, ret, callerVars>>

\* a view is placed on sheet number i of the enumeration: one more viewport
HostAddViewport(i) ==
    /\ ret = NoCall
    /\ i \in 1..Len(sheets)
    /\ Len(sheets[i].Viewports) < MaxViewports
    /\ sheets' = [sheets EXCEPT
                    ![i].Viewports = Append(@, Len(@) + 1)]
    /\ UNCHANGED <<active, catVars, placed, projVars, gridVars, linkVars,
                   famVars, worksets, views, ret, callerVars>>

\* a schedule is placed on sheet number i of the enumeration
HostPlaceSchedule(i, revision) ==
    /\ ret = NoCall
    /\ i \in 1..Len(sheets)
    /\ Len(placed) < MaxPlaced
    /\ placed' = Append(placed,
                        [doc |-> sheets[i].doc, OwnerViewId |-> sheets[i].Id,
                         IsTitleblockRevisionSchedule |-> revision])
    /\ UNCHANGED <<active, catVars, sheets, projVars, gridVars, linkVars,
                   famVars, worksets, views, ret, callerVars>>

HostBindParameter(d, name) ==
    /\ ret = NoCall
    /\ Len(bindings["D1"]) + Len(bindings["D2"]) < MaxBindings
    /\ bindings' = [bindings EXCEPT
                      ![d] = Append(@, [Name |-> name, Id |-> Len(@) + 1])]
    /\ UNCHANGED <<active, catVars, sheetVars, isFamily, sharedFile,
                   gridVars, linkVars,
                   famVars, worksets, views, ret, callerVars>>

HostSetSharedFile(sf) ==
    /\ ret = NoCall
    /\ sf # sharedFile
    /\ sharedFile' = sf
    /\ UNCHANGED <<active, catVars, sheetVars, isFamily, bindings,
                   gridVars, linkVars,
                   famVars, worksets, views, ret, callerVars>>

HostAddGrid(d, curve) ==
    /\ ret = NoCall
    /\ Len(grids) < MaxGrids
    /\ grids' = Append(grids, [doc |-> d, Id |-> Len(GridsOf(grids, d)) + 1,
                               Curve |-> curve])
    /\ UNCHANGED <<active, catVars, sheetVars, projVars, linked, linkVars,
                   famVars, worksets, views, ret, callerVars>>

\* document d gets a link instance to document l (NoDoc: an unloaded link)
HostAddLink(d, l) ==
    /\ ret = NoCall
    /\ l # d
    /\ l \notin linked[d]
    /\ linked' = [linked EXCEPT ![d] = @ \cup {l}]
    /\ UNCHANGED <<active, catVars, sheetVars, projVars, grids, linkVars,
                   famVars, worksets, views, ret, callerVars>>

\* the document is saved, or saved under another path
HostSetPath(d, kind) ==
    /\ ret = NoCall
    /\ kind # "empty"
    /\ kind # pathKind[d]
    /\ pathKind' = [pathKind EXCEPT ![d] = kind]
    /\ UNCHANGED <<active, catVars, sheetVars, projVars, gridVars, extrefs,
                   famVars, worksets, views, ret, callerVars>>

\* an external file reference is saved with the document
HostAddExternalRef(d, kind) ==
    /\ ret = NoCall
    /\ Len(extrefs["D1"]) + Len(extrefs["D2"]) < MaxRefs
    /\ extrefs' = [extrefs EXCEPT
                     ![d] = Append(@, [Id |-> Len(@) + 1, Type |-> kind.Type,
                                       Loaded |-> kind.Loaded])]
    /\ UNCHANGED <<active, catVars, sheetVars, projVars, gridVars, pathKind,
                   famVars, worksets, views, ret, callerVars>>

(***************************************************************************)
(* Query calls.                                                            *)
(***************************************************************************)
ElementSet == {elements[i] : i \in 1..Len(elements)}

SuppliedArgs ==
    {[given |-> FALSE, items |-> <<>>]} \cup
    {[given |-> TRUE, items |-> s] : s \in ListsOf(ElementSet)}

\* the caller drops the result of the last call
Discard ==
    /\ ret # NoCall
    /\ ret' = NoCall
    /\ UNCHANGED <<docVars, callerVars>>

\* the document argument is read only when no non-empty list is supplied
CallGetElementsByCategory(element_bicats, given, doc) ==
    /\ ret = NoCall
    /\ (given.given /\ given.items # <<>>) => doc = NoDoc
    /\ ret' = [op |-> "get_elements_by_category",
               args |-> [element_bicats |-> element_bicats,
                         elements |-> given, doc |-> doc],
               out |-> get_elements_by_category(elements, subcats, active,
                                                element_bicats, given, doc)]
    /\ UNCHANGED <<docVars, callerVars>>

\* two open project documents, nothing in them yet, no call made
InitDocs ==
    /\ active = "D1"
    /\ elements = <<>>
    /\ subcats = [d \in Docs |-> <<>>]
    /\ sheets = <<>>
    /\ placed = <<>>
    /\ isFamily = [d \in Docs |-> FALSE]
    /\ bindings = [d \in Docs |-> <<>>]
    /\ sharedFile = "undefined"
    /\ grids = <<>>
    /\ linked = [d \in Docs |-> {}]
    /\ pathKind = [d \in Docs |-> "empty"]
    /\ extrefs = [d \in Docs |-> <<>>]
    /\ famTypes = [d \in Docs |-> <<>>]
    /\ famParams = [d \in Docs |-> <<>>]
    /\ worksets = <<>>
    /\ views = <<>>
    /\ ret = NoCall
    /\ kept = NoKept
    /\ frame = NoFrame

NextCategory ==
    \/ \E d \in Docs : HostActivate(d)
    \/ \E d \in Docs, n \in SubCatNames : HostAddSubCategory(d, n)
    \/ \E d \in Docs : \E c \in ElementCategories(subcats, d) :
          HostAddElement(d, c, NoParam)
    \/ \E b \in BicatLists, g \in SuppliedArgs, d \in DocArgs :
          CallGetElementsByCategory(b, g, d)
    \/ Discard

SpecCategory == InitDocs /\ [][NextCategory]_vars

(***************************************************************************)
(* C1: get_elements_by_category on a caller-supplied collection returns    *)
(* exactly the supplied elements whose category is in the list of built-in *)
(* categories, in input order.                                             *)
(***************************************************************************)
C1_SuppliedFilteredByCategory ==
    (ret.op = "get_elements_by_category" /\ ret.args.elements.given)
    => ret.out = Returned(SelectSeq(ret.args.elements.items,
                    LAMBDA x : /\ x.Category # NoCategory
                               /\ x.Category.Id \in ret.args.element_bicats))

(***************************************************************************)
(* Queries by parameter value.                                             *)
(***************************************************************************)
CallGetElementsByParameter(param_name, param_value, doc, partial) ==
    /\ ret = NoCall
    /\ ret' = [op |-> "get_elements_by_parameter",
               args |-> [param_name |-> param_name, param_value |-> param_value,
                         doc |-> doc, partial |-> partial],
               out |-> get_elements_by_parameter(elements, active, param_name,
                                                 param_value, doc, partial)]
    /\ UNCHANGED <<docVars, callerVars>>

NextParam ==
    \/ \E d \in Docs : HostActivate(d)
    \/ \E d \in Docs, p \in Params \cup {NoParam} :
          HostAddElement(d, NoCategory, p)
    \/ \E n \in ParamNames, q \in QueryStrings, d \in {NoDoc, "D2"}, p \in BOOLEAN :
          CallGetElementsByParameter(n, q, d, p)
    \/ Discard

SpecParam == InitDocs /\ [][NextParam]_vars

\* the elements of the queried document that carry the named parameter with
\* a value matching the query in the given mode
MatchingElements(a) ==
    SelectSeq(ElementsOf(elements, DocOr(a.doc, active)),
        LAMBDA e :
            /\ e.Param # NoParam
            /\ e.Param.Name = a.param_name
            /\ e.Param.Value.t = "str"
            /\ IF a.partial THEN Contains(a.param_value, e.Param.Value.v)
                            ELSE e.Param.Value.v = a.param_value)

(***************************************************************************)
(* C2: get_elements_by_parameter returns exactly the elements whose value  *)
(* of the parameter contains the query (partial=True) or equals the query  *)
(* (partial=False).                                                        *)
(***************************************************************************)
C2_ReturnsMatchingElements ==
    ret.op = "get_elements_by_parameter"
    => ret.out = Returned(MatchingElements(ret.args))

\* some element of the queried document has the query as its value
QueryEqualsSomeValue(a) ==
    \E i \in 1..Len(elements) :
        /\ elements[i].doc = DocOr(a.doc, active)
        /\ elements[i].Param # NoParam
        /\ elements[i].Param.Name = a.param_name
        /\ elements[i].Param.StorageType = "String"
        /\ StrEq(a.param_value, elements[i].Param.Value)

\* the outcome of the last get_elements_by_parameter call in the given mode:
\* the call's own outcome in its mode, the other mode's on the same arguments
OutcomeInMode(partial) ==
    IF ret.args.partial = partial
    THEN ret.out
    ELSE get_elements_by_parameter(elements, active, ret.args.param_name,
                                   ret.args.param_value, ret.args.doc, partial)

(***************************************************************************)
(* C3 as stated: when the query equals the value of some element, the two  *)
(* modes return the same elements.                                         *)
(***************************************************************************)
C3_ModesAgreeOnExactValue ==
    (ret.op = "get_elements_by_parameter" /\ QueryEqualsSomeValue(ret.args))
    => OutcomeInMode(TRUE) = OutcomeInMode(FALSE)

(***************************************************************************)
(* C3 amended: when the query equals the value of some element, either     *)
(* both modes raise, or both return and the partial=False result is the    *)
(* non-empty sub-list of the partial=True result made of the elements      *)
(* whose value equals the query (the partial=True result may hold more).   *)
(***************************************************************************)
C3_ExactIsSublistOfPartial ==
    (ret.op = "get_elements_by_parameter" /\ QueryEqualsSomeValue(ret.args))
    => LET p == OutcomeInMode(TRUE)
           e == OutcomeInMode(FALSE)
       IN  /\ p.exc = e.exc
           /\ p.exc = "" =>
                /\ e.val # <<>>
                /\ e.val = SelectSeq(p.val,
                     LAMBDA x : StrEq(ret.args.param_value, x.Param.Value))

\* a partial=True call whose query equals one element's value and is
\* strictly contained in another's: both elements are returned
C3_Witness ==
    /\ ret.op = "get_elements_by_parameter"
    /\ QueryEqualsSomeValue(ret.args)
    /\ ret.args.partial
    /\ ret.out.exc = ""
    /\ Len(ret.out.val) = 2
    /\ Len(OutcomeInMode(FALSE).val) = 1

(***************************************************************************)
(* Queries on sheets.                                                      *)
(***************************************************************************)
\* a variant that makes the queried document the active one
CallGetSheetByNumber_activating(sheet_num, doc) ==
    /\ ret = NoCall
    /\ active' = DocOr(doc, active)
    /\ ret' = [op |-> "get_sheet_by_number",
               args |-> [sheet_num |-> sheet_num, doc |-> doc],
               out |-> get_sheet_by_number(sheets, active, sheet_num, doc)]
    /\ UNCHANGED <<catVars, sheetVars, projVars, gridVars, linkVars,
                   famVars, worksets, views, callerVars>>

CallGetSheetByNumber(sheet_num, doc) ==
    /\ ret = NoCall
    /\ ret' = [op |-> "get_sheet_by_number",
               args |-> [sheet_num |-> sheet_num, doc |-> doc],
               out |-> get_sheet_by_number(sheets, active, sheet_num, doc)]
    /\ UNCHANGED <<docVars, callerVars>>

CallIsSheetEmpty(viewsheet) ==
    /\ ret = NoCall
    /\ viewsheet \in SheetRefs
    /\ ret' = [op |-> "is_sheet_empty",
               args |-> [viewsheet |-> viewsheet],
               out |-> is_sheet_empty(sheets, placed, viewsheet)]
    /\ UNCHANGED <<docVars, callerVars>>

NextSheets ==
    \/ \E d \in Docs : HostActivate(d)
    \/ \E d \in Docs, n \in SheetNumbers, p, a \in BOOLEAN :
          HostAddSheet(d, n, p, a)
    \/ \E n \in QueryNumbers, d \in DocArgs : CallGetSheetByNumber(n, d)
    \/ Discard

SpecSheets == InitDocs /\ [][NextSheets]_vars

NextSheetContent ==
    \/ \E d \in Docs : HostAddSheet(d, "A1", FALSE, TRUE)
    \/ \E i \in 1..Len(sheets) : HostAddViewport(i)
    \/ \E i \in 1..Len(sheets), r \in BOOLEAN : HostPlaceSchedule(i, r)
    \/ \E v \in SheetRefs : CallIsSheetEmpty(v)
    \/ Discard

SpecSheetContent == InitDocs /\ [][NextSheetContent]_vars

\* the positions, in host enumeration order, of the sheets of the queried
\* document that carry the number asked for
Numbered(a) ==
    {i \in 1..Len(sheets) : /\ sheets[i].doc = DocOr(a.doc, active)
                            /\ sheets[i].SheetNumber = a.sheet_num}

(***************************************************************************)
(* C4: get_sheet_by_number never raises; it returns None when no sheet of  *)
(* the document has the number, and otherwise the first sheet with that    *)
(* number in host enumeration order.                                       *)
(***************************************************************************)
C4_SheetByNumber ==
    ret.op = "get_sheet_by_number"
    => /\ ret.out.exc = ""
       /\ Numbered(ret.args) = {} => ret.out.val = None
       /\ Numbered(ret.args) # {} =>
            \E i \in Numbered(ret.args) :
                /\ \A j \in Numbered(ret.args) : i <= j
                /\ ret.out.val = Ref(sheets[i])

\* two sheets of the queried document carry the number: the first is returned
C4_Witness ==
    /\ ret.op = "get_sheet_by_number"
    /\ Cardinality(Numbered(ret.args)) = 2
    /\ ret.out.val # None

\* a sheet without viewports and without placed schedules other than
\* titleblock revision schedules
EmptySheet(shs, pl, v) ==
    /\ \A i \in 1..Len(shs) : Ref(shs[i]) = v => Len(shs[i].Viewports) = 0
    /\ \A k \in 1..Len(pl) :
          (pl[k].doc = v.doc /\ pl[k].OwnerViewId = v.Id)
          => pl[k].IsTitleblockRevisionSchedule

(***************************************************************************)
(* C7: is_sheet_empty returns True exactly when the sheet has no viewport  *)
(* and no placed schedule other than titleblock revision schedules; from   *)
(* an empty sheet, adding one viewport makes it return False, and adding   *)
(* only a titleblock revision schedule leaves it True.                     *)
(***************************************************************************)
C7_SheetEmpty ==
    /\ [](ret.op = "is_sheet_empty"
          => ret.out = Returned(EmptySheet(sheets, placed, ret.args.viewsheet)))
    /\ [][\A i \in 1..Len(sheets) :
            LET v == Ref(sheets[i])
            IN  is_sheet_empty(sheets, placed, v) = Returned(TRUE) =>
                  /\ (/\ placed' = placed
                      /\ Len(sheets'[i].Viewports) = Len(sheets[i].Viewports) + 1)
                     => is_sheet_empty(sheets', placed', v) = Returned(FALSE)
                  /\ (/\ sheets' = sheets
                      /\ Len(placed') = Len(placed) + 1
                      /\ placed'[Len(placed')].IsTitleblockRevisionSchedule)
                     => is_sheet_empty(sheets', placed', v) = Returned(TRUE)]_vars

\* is_sheet_empty answered False for a sheet that holds one viewport and, as
\* its only schedule, a titleblock revision schedule
C7_Witness ==
    /\ ret.op = "is_sheet_empty"
    /\ ret.out = Returned(FALSE)
    /\ Len(SheetAt(sheets, ret.args.viewsheet).Viewports) = 1
    /\ \E k \in 1..Len(placed) :
          /\ placed[k].doc = ret.args.viewsheet.doc
          /\ placed[k].OwnerViewId = ret.args.viewsheet.Id
    /\ get_schedules_on_sheet(placed, ret.args.viewsheet,
                              ret.args.viewsheet.doc) = <<>>

(***************************************************************************)
(* Queries on project parameters.                                          *)
(***************************************************************************)
CallGetProjectParameterId(param_name) ==
    /\ ret = NoCall
    /\ ret' = [op |-> "get_project_parameter_id",
               args |-> [param_name |-> param_name],
               out |-> get_project_parameter_id(isFamily, bindings, sharedFile,
                                                active, param_name)]
    /\ UNCHANGED <<docVars, callerVars>>

CallGetElementsByParamValue(param_name, param_value, inverse, doc) ==
    /\ ret = NoCall
    /\ ret' = [op |-> "get_elements_by_param_value",
               args |-> [param_name |-> param_name, param_value |-> param_value,
                         inverse |-> inverse, doc |-> doc],
               out |-> get_elements_by_param_value(elements, isFamily, bindings,
                          sharedFile, active, param_name, param_value,
                          inverse, doc)]
    /\ UNCHANGED <<docVars, callerVars>>

\* each open document is a project or a family document
InitProj ==
    /\ active = "D1"
    /\ elements = <<>>
    /\ subcats = [d \in Docs |-> <<>>]
    /\ sheets = <<>>
    /\ placed = <<>>
    /\ isFamily \in [Docs -> BOOLEAN]
    /\ bindings = [d \in Docs |-> <<>>]
    /\ sharedFile = "undefined"
    /\ grids = <<>>
    /\ linked = [d \in Docs |-> {}]
    /\ pathKind = [d \in Docs |-> "empty"]
    /\ extrefs = [d \in Docs |-> <<>>]
    /\ famTypes = [d \in Docs |-> <<>>]
    /\ famParams = [d \in Docs |-> <<>>]
    /\ worksets = <<>>
    /\ views = <<>>
    /\ ret = NoCall
    /\ kept = NoKept
    /\ frame = NoFrame

NextProj ==
    \/ \E d \in Docs : HostActivate(d)
    \/ \E d \in Docs, n \in ParamNames : HostBindParameter(d, n)
    \/ \E sf \in SharedFileStates : HostSetSharedFile(sf)
    \/ \E n \in ParamNames : CallGetProjectParameterId(n)
    \/ \E n \in ParamNames, q \in {<<"a">>}, i \in BOOLEAN, d \in DocArgs :
          CallGetElementsByParamValue(n, q, i, d)
    \/ Discard

SpecProj == InitProj /\ [][NextProj]_vars

\* the positions of the project parameters of document d with the name: a
\* family document has no project parameters
ProjectParamsNamed(d, name) ==
    {i \in 1..Len(bindings[d]) : ~isFamily[d] /\ bindings[d][i].Name = name}

(***************************************************************************)
(* C5: get_project_parameter_id raises PyRevitException when no project    *)
(* parameter of the (active) document has the name, and otherwise returns  *)
(* the id of the first project parameter with that name.                   *)
(***************************************************************************)
C5_ProjectParameterId ==
    ret.op = "get_project_parameter_id"
    => LET named == ProjectParamsNamed(active, ret.args.param_name)
       IN  /\ named = {} => ret.out = Raised("PyRevitException")
           /\ named # {} =>
                \E i \in named :
                    /\ \A j \in named : i <= j
                    /\ ret.out = Returned([id |-> bindings[active][i].Id])

\* the lookup of a name bound in the other document only, or bound in a
\* family document: PyRevitException
C5_Witness ==
    /\ ret.op = "get_project_parameter_id"
    /\ ret.out.exc = "PyRevitException"
    /\ \E d \in Docs : \E i \in 1..Len(bindings[d]) :
          bindings[d][i].Name = ret.args.param_name

(***************************************************************************)
(* C8: get_elements_by_param_value with a parameter name that matches no   *)
(* project parameter returns an empty list and does not raise.             *)
(***************************************************************************)
C8_MissingParameterGivesEmpty ==
    (/\ ret.op = "get_elements_by_param_value"
     /\ ProjectParamsNamed(active, ret.args.param_name) = {})
    => ret.out = Returned(<<>>)

(***************************************************************************)
(* Queries on grids.                                                       *)
(***************************************************************************)
\* the lists of grids a caller supplies: None, an empty list, or the grids
\* of all open documents
GridArgs ==
    {[given |-> FALSE, items |-> <<>>],
     [given |-> TRUE, items |-> <<>>],
     [given |-> TRUE, items |-> grids]}

\* the other arguments are read only when no non-empty list is supplied
CallGetGridPoints(given, include_linked_models, doc, order) ==
    /\ ret = NoCall
    /\ order \in Orders(get_all_linkeddocs(linked, active, NoDoc))
    /\ (given.given /\ given.items # <<>>) => (~include_linked_models /\ doc = NoDoc)
    /\ ~include_linked_models =>
          order = CHOOSE o \in Orders(get_all_linkeddocs(linked, active, NoDoc)) : TRUE
    /\ ret' = [op |-> "get_gridpoints",
               args |-> [grids |-> given,
                         include_linked_models |-> include_linked_models,
                         doc |-> doc, order |-> order],
               out |-> get_gridpoints(grids, linked, active, given,
                                      include_linked_models, doc, order)]
    /\ UNCHANGED <<docVars, callerVars>>

NextGrid ==
    \/ \E d \in Docs, c \in Curves : HostAddGrid(d, c)
    \/ \E l \in Docs : HostAddLink("D1", l)
    \/ \E g \in GridArgs, i \in BOOLEAN, d \in DocArgs :
         \E o \in Orders(get_all_linkeddocs(linked, active, NoDoc)) :
            CallGetGridPoints(g, i, d, o)
    \/ Discard

SpecGrid == InitDocs /\ [][NextGrid]_vars

\* the grids the last get_gridpoints call worked on
SourceGrids(a) ==
    IF a.grids.given /\ a.grids.items # <<>> THEN a.grids.items
    ELSE get_all_grids(grids, linked, active, a.include_linked_models,
                       DocOr(a.doc, active), a.order)

SourceRefs(a) == {Ref(SourceGrids(a)[i]) : i \in 1..Len(SourceGrids(a))}

CurveOf(ref) == grids[CHOOSE i \in 1..Len(grids) : Ref(grids[i]) = ref].Curve

Meet(g, h) == Intersect(CurveOf(g), CurveOf(h))

\* the pairs of different grids of the source that intersect in a point
IntersectingPairs(a) ==
    {p \in SUBSET SourceRefs(a) :
        /\ Cardinality(p) = 2
        /\ \A g, h \in p : g # h => Meet(g, h).res = "Overlap"}

PairPoint(p) == LET g == CHOOSE g \in p : TRUE
                    h == CHOOSE h \in p : h # g
                IN  Meet(g, h).point

\* distinct grids intersect in at most one point, and different pairs at
\* different points
GeneralPosition(a) ==
    /\ \A g, h \in SourceRefs(a) : g # h => Meet(g, h).res # "Equal"
    /\ \A p, q \in IntersectingPairs(a) : p # q => PairPoint(p) # PairPoint(q)

(***************************************************************************)
(* C6: on grids in general position get_gridpoints returns exactly one     *)
(* GridPoint per intersecting pair, with pairwise distinct points, each    *)
(* naming the two different grids that intersect at its point; three       *)
(* mutually intersecting grids give exactly three GridPoints.              *)
(***************************************************************************)
C6_GridPoints ==
    (ret.op = "get_gridpoints" /\ GeneralPosition(ret.args))
    => LET R == ret.out.val
           P == IntersectingPairs(ret.args)
       IN  /\ ret.out.exc = ""
           /\ Cardinality(R) = Cardinality(P)
           /\ \A gp \in R :
                /\ gp.grids[1] # gp.grids[2]
                /\ {gp.grids[1], gp.grids[2]} \in P
                /\ gp.point = PairPoint({gp.grids[1], gp.grids[2]})
           /\ \A p \in P : \E gp \in R : {gp.grids[1], gp.grids[2]} = p
           /\ \A gp1, gp2 \in R : gp1 # gp2 => gp1.point # gp2.point
           /\ (Cardinality(SourceRefs(ret.args)) = 3 /\ Cardinality(P) = 3)
              => Cardinality(R) = 3

\* three grids forming a triangle were queried: three grid points
C6_Witness ==
    /\ ret.op = "get_gridpoints"
    /\ GeneralPosition(ret.args)
    /\ Cardinality(SourceRefs(ret.args)) = 3
    /\ Cardinality(IntersectingPairs(ret.args)) = 3
    /\ Cardinality(ret.out.val) = 3

(***************************************************************************)
(* Queries on links.                                                       *)
(***************************************************************************)
CallGetLinks(linktype, doc, fault) ==
    /\ ret = NoCall
    /\ ret' = [op |-> "get_links",
               args |-> [linktype |-> linktype, doc |-> doc, fault |-> fault],
               out |-> get_links(pathKind, extrefs, active, linktype, doc, fault)]
    /\ UNCHANGED <<docVars, callerVars>>

CallGetLinkedModels(doc, loaded_only, fault) ==
    /\ ret = NoCall
    /\ ret' = [op |-> "get_linked_models",
               args |-> [doc |-> doc, loaded_only |-> loaded_only,
                         fault |-> fault],
               out |-> get_linked_models(pathKind, extrefs, active, doc,
                                         loaded_only, fault)]
    /\ UNCHANGED <<docVars, callerVars>>

NextLinks ==
    \/ \E d \in Docs, k \in PathKinds : HostSetPath(d, k)
    \/ \E d \in Docs, k \in RefKinds : HostAddExternalRef(d, k)
    \/ \E t \in LinkTypes \cup {NoLinkType}, d \in {NoDoc, "D2"}, f \in Faults :
          CallGetLinks(t, d, f)
    \/ \E d \in {NoDoc, "D2"}, l \in BOOLEAN, f \in Faults :
          CallGetLinkedModels(d, l, f)
    \/ Discard

SpecLinks == InitDocs /\ [][NextLinks]_vars

(***************************************************************************)
(* C9: every failure of a host call made by get_links on a saved document  *)
(* reaches the caller as PyRevitException carrying the model path and the  *)
(* original error text.                                                    *)
(***************************************************************************)
C9_HostFailuresWrapped ==
    (ret.op = "get_links" /\ ret.out.failed # "")
    => /\ ret.out.exc = "PyRevitException"
       /\ ret.out.val = [model_path |-> ModelPath(DocOr(ret.args.doc, active)),
                         data_err |-> ret.out.failed]

(***************************************************************************)
(* C10: get_links and get_linked_models raise PyRevitException on a        *)
(* document that was never saved (empty PathName, or no model path for     *)
(* it), before any transmission data is read and without returning links.  *)
(***************************************************************************)
C10_UnsavedRaises ==
    (/\ ret.op \in {"get_links", "get_linked_models"}
     /\ pathKind[DocOr(ret.args.doc, active)] \in {"empty", "unconvertible"})
    => /\ ret.out.exc = "PyRevitException"
       /\ ret.out.val = None
       /\ \A i \in 1..Len(ret.out.calls) :
             ret.out.calls[i] # "ReadTransmissionData"

\* get_linked_models on a document with a saved link but no model path
C10_Witness ==
    /\ ret.op = "get_linked_models"
    /\ pathKind[DocOr(ret.args.doc, active)] = "unconvertible"
    /\ extrefs[DocOr(ret.args.doc, active)] # <<>>
    /\ ret.out.exc = "PyRevitException"

(***************************************************************************)
(* Family documents.  The FamilyManager of a family document holds the     *)
(* family's types and parameters, each with a name that is unique in the   *)
(* family; a project document has none.                                    *)
(***************************************************************************)
FamilyNames == {"T", "U"}
FamilyQueryNames == FamilyNames \cup {"V"}

\* the object at position pos of a FamilyManager enumeration of document d
FamilyItem(kind, d, pos) == [kind |-> kind, doc |-> d, pos |-> pos]

\* the first position of the list of names that holds the name, 0 if none
RECURSIVE FirstPos(_, _, _)
FirstPos(names, name, i) ==
    IF i > Len(names) THEN 0
    ELSE IF names[i] = name THEN i
    ELSE FirstPos(names, name, i + 1)

\* a variant that returns None for a document that is not a family
get_family_type_soft(fam, types, type_name, family_doc) ==
    IF fam[family_doc] /\ FirstPos(types[family_doc], type_name, 1) # 0
    THEN Returned(FamilyItem("FamilyType", family_doc,
                             FirstPos(types[family_doc], type_name, 1)))
    ELSE Returned(None)

\* the loop falls off its end when no name matches: None is returned
get_family_type(fam, types, type_name, family_doc) ==
    IF fam[family_doc]
    THEN IF FirstPos(types[family_doc], type_name, 1) # 0
         THEN Returned(FamilyItem("FamilyType", family_doc,
                                  FirstPos(types[family_doc], type_name, 1)))
         ELSE Returned(None)
    ELSE Raised("PyRevitException")

get_family_parameter(fam, params, param_name, family_doc) ==
    IF fam[family_doc]
    THEN IF FirstPos(params[family_doc], param_name, 1) # 0
         THEN Returned(FamilyItem("FamilyParameter", family_doc,
                                  FirstPos(params[family_doc], param_name, 1)))
         ELSE Returned(None)
    ELSE Raised("PyRevitException")

FamItems == Len(famTypes["D1"]) + Len(famTypes["D2"])
            + Len(famParams["D1"]) + Len(famParams["D2"])

HostAddFamilyType(d, name) ==
    /\ ret = NoCall
    /\ isFamily[d]
    /\ FamItems < MaxFamItems
    /\ FirstPos(famTypes[d], name, 1) = 0
    /\ famTypes' = [famTypes EXCEPT ![d] = Append(@, name)]
    /\ UNCHANGED <<active, catVars, sheetVars, projVars, gridVars, linkVars,
                   famParams, worksets, views, ret, callerVars>>

HostAddFamilyParameter(d, name) ==
    /\ ret = NoCall
    /\ isFamily[d]
    /\ FamItems < MaxFamItems
    /\ FirstPos(famParams[d], name, 1) = 0
    /\ famParams' = [famParams EXCEPT ![d] = Append(@, name)]
    /\ UNCHANGED <<active, catVars, sheetVars, projVars, gridVars, linkVars,
                   famTypes, worksets, views, ret, callerVars>>

CallGetFamilyType(type_name, family_doc) ==
    /\ ret = NoCall
    /\ ret' = [op |-> "get_family_type",
               args |-> [name |-> type_name, family_doc |-> family_doc],
               out |-> get_family_type(isFamily, famTypes, type_name,
                                       family_doc)]
    /\ UNCHANGED <<docVars, callerVars>>

CallGetFamilyParameter(param_name, family_doc) ==
    /\ ret = NoCall
    /\ ret' = [op |-> "get_family_parameter",
               args |-> [name |-> param_name, family_doc |-> family_doc],
               out |-> get_family_parameter(isFamily, famParams, param_name,
                                            family_doc)]
    /\ UNCHANGED <<docVars, callerVars>>

NextFamily ==
    \/ \E d \in Docs : HostActivate(d)
    \/ \E d \in Docs, n \in FamilyNames : HostAddFamilyType(d, n)
    \/ \E d \in Docs, n \in FamilyNames : HostAddFamilyParameter(d, n)
    \/ \E n \in FamilyQueryNames, d \in Docs : CallGetFamilyType(n, d)
    \/ \E n \in FamilyQueryNames, d \in Docs : CallGetFamilyParameter(n, d)
    \/ Discard

SpecFamily == InitProj /\ [][NextFamily]_vars

\* the names the last family lookup searched, in enumeration order
SearchedNames ==
    IF ret.op = "get_family_type" THEN famTypes[ret.args.family_doc]
    ELSE famParams[ret.args.family_doc]

(***************************************************************************)
(* C11: get_family_type and get_family_parameter raise PyRevitException    *)
(* if and only if the given document is not a family document; on a family *)
(* document they return the first type or parameter with the given name,   *)
(* or None without raising when no name matches.                           *)
(***************************************************************************)
C11_FamilyLookup ==
    ret.op \in {"get_family_type", "get_family_parameter"}
    => LET d == ret.args.family_doc
           named == {i \in 1..Len(SearchedNames) :
                        SearchedNames[i] = ret.args.name}
       IN  /\ ret.out.exc = "PyRevitException" <=> ~isFamily[d]
           /\ ret.out.exc \in {"", "PyRevitException"}
           /\ (isFamily[d] /\ named = {}) => ret.out = Returned(None)
           /\ (isFamily[d] /\ named # {}) =>
                \E i \in named :
                    /\ \A j \in named : i <= j
                    /\ ret.out.val.doc = d
                    /\ ret.out.val.pos = i

\* a lookup on a family document that holds two types found the second one,
\* although the active document is not a family
C11_Witness ==
    /\ ret.op = "get_family_type"
    /\ Len(famTypes[ret.args.family_doc]) = 2
    /\ ret.out.exc = ""
    /\ ret.out.val # None
    /\ ret.out.val.pos = 2
    /\ ~isFamily[active]

(***************************************************************************)
(* Repeated queries.  The caller may hold on to the result of a call       *)
(* (Keep): `kept` is that call together with the documents as they were    *)
(* when the result was kept.                                               *)
(***************************************************************************)
\* the elements of a list of elements, as references
RefsOf(seq) == [i \in 1..Len(seq) |-> Ref(seq[i])]

CallGetSheets(include_placeholders, include_noappear, doc) ==
    /\ ret = NoCall
    /\ ret' = [op |-> "get_sheets",
               args |-> [include_placeholders |-> include_placeholders,
                         include_noappear |-> include_noappear, doc |-> doc],
               out |-> Returned(RefsOf(get_sheets(sheets, active,
                          include_placeholders, include_noappear, doc)))]
    /\ UNCHANGED <<docVars, callerVars>>

Keep ==
    /\ ret # NoCall
    /\ kept' = [call |-> ret, docs |-> docVars]
    /\ ret' = NoCall
    /\ UNCHANGED <<docVars, frame>>

NextRepeat ==
    \/ HostAddSheet("D1", "A1", FALSE, TRUE)
    \/ \E i \in 1..Len(sheets) : HostPlaceSchedule(i, FALSE)
    \/ HostAddElement("D1", NoCategory,
                      [Name |-> "P", Id |-> 1, StorageType |-> "String",
                       Value |-> PyStr(<<"a">>)])
    \/ \E p \in BOOLEAN : CallGetSheets(p, TRUE, NoDoc)
    \/ \E d \in {NoDoc, "D2"} : CallGetSheetByNumber("A1", d)
    \/ \E v \in SheetRefs : CallIsSheetEmpty(v)
    \/ CallGetElementsByParameter("P", <<"a">>, NoDoc, TRUE)
    \/ CallGetElementsByCategory({-2000011}, [given |-> FALSE, items |-> <<>>],
                                 NoDoc)
    \/ Keep
    \/ Discard

SpecRepeat == InitDocs /\ [][NextRepeat]_vars

CallGetCategory(cat_name, doc) ==
    /\ ret = NoCall
    /\ ret' = [op |-> "get_category",
               args |-> [cat_name |-> cat_name, doc |-> doc],
               out |-> Returned(get_category(subcats, active, cat_name, doc))]
    /\ UNCHANGED <<docVars, callerVars>>

CallGetBuiltinCategory(cat_name, doc) ==
    /\ ret = NoCall
    /\ ret' = [op |-> "get_builtincategory",
               args |-> [cat_name |-> cat_name, doc |-> doc],
               out |-> Returned(get_builtincategory(subcats, active, cat_name,
                                                    doc))]
    /\ UNCHANGED <<docVars, callerVars>>

CallGetAllGrids(include_linked_models, doc, order) ==
    /\ ret = NoCall
    /\ order \in Orders(get_all_linkeddocs(linked, active, NoDoc))
    /\ ret' = [op |-> "get_all_grids",
               args |-> [include_linked_models |-> include_linked_models,
                         doc |-> doc, order |-> order],
               out |-> Returned(RefsOf(get_all_grids(grids, linked, active,
                          include_linked_models, doc, order)))]
    /\ UNCHANGED <<docVars, callerVars>>

NextActiveDoc ==
    \/ \E d \in Docs : HostActivate(d)
    \/ \E n \in SubCatNames : HostAddSubCategory("D1", n)
    \/ HostBindParameter("D1", "P")
    \/ HostAddGrid("D2", Line(0, 1, 0))
    \/ HostAddLink("D1", "D2")
    \/ \E n \in SubCatNames, d \in Docs : CallGetCategory(n, d)
    \/ \E n \in SubCatNames, d \in Docs : CallGetBuiltinCategory(n, d)
    \/ \E d \in Docs :
         \E o \in Orders(get_all_linkeddocs(linked, active, NoDoc)) :
            CallGetAllGrids(TRUE, d, o)
    \/ \E d \in Docs : CallGetElementsByParamValue("P", <<"a">>, FALSE, d)
    \/ Discard

SpecActiveDoc == InitDocs /\ [][NextActiveDoc]_vars

\* the members of a list
Members(seq) == {seq[i] : i \in 1..Len(seq)}

\* the outcomes the last call can have on the same documents and arguments
\* when document act is the active one (a list of grids is compared up to
\* the order in which the set of linked documents is iterated)
OutcomesWhenActive(act) ==
    IF ret.op = "get_category"
    THEN {Returned(get_category(subcats, act, ret.args.cat_name, ret.args.doc))}
    ELSE IF ret.op = "get_builtincategory"
    THEN {Returned(get_builtincategory(subcats, act, ret.args.cat_name,
                                       ret.args.doc))}
    ELSE IF ret.op = "get_elements_by_param_value"
    THEN {get_elements_by_param_value(elements, isFamily, bindings, sharedFile,
             act, ret.args.param_name, ret.args.param_value, ret.args.inverse,
             ret.args.doc)}
    ELSE {Returned(Members(get_all_grids(grids, linked, act,
                      ret.args.include_linked_models, ret.args.doc, o))) :
             o \in Orders(get_all_linkeddocs(linked, act, NoDoc))}

LastOutcome ==
    IF ret.op = "get_all_grids" THEN Returned(Members(ret.out.val))
    ELSE ret.out

(***************************************************************************)
(* C13: a query that is handed a document returns the same result whatever *)
(* document is active (get_elements_by_param_value, get_category,          *)
(* get_builtincategory, get_all_grids with include_linked_models=True).    *)
(***************************************************************************)
C13_IndependentOfActiveDoc ==
    (/\ ret.op \in {"get_category", "get_builtincategory",
                    "get_elements_by_param_value", "get_all_grids"}
     /\ ret.args.doc # NoDoc)
    => \A act \in Docs : OutcomesWhenActive(act) = {LastOutcome}

(***************************************************************************)
(* Views.  A view is an element of its document with a name unique in the  *)
(* document.  CanRefer: the view is a ViewDrafting, ViewPlan or            *)
(* ViewSection.  Graphical: its ViewType is one of GRAPHICAL_VIEWTYPES and *)
(* it is neither a template nor view specific.  Elements: the elements     *)
(* drawn in the view that point at a view: each has the category of view   *)
(* references, the name of the view it points at and, as Target, the id in *)
(* its REFERENCE_VIEWER_TARGET_VIEW parameter (0: no such parameter).      *)
(***************************************************************************)
\* the ids stand for OST_Views, OST_ReferenceViewer and OST_Viewers
BUILTINCATEGORIES_VIEW == {-2000279, -2000198, -2000278}
ViewerCategory == [Name |-> "Views", Id |-> -2000279]

ViewNames == <<"V1", "V2", "V3", "V4">>
\* a floor plan, a 3D view and a floor plan template
ViewKinds == { [CanRefer |-> TRUE, Graphical |-> TRUE],
               [CanRefer |-> FALSE, Graphical |-> TRUE],
               [CanRefer |-> TRUE, Graphical |-> FALSE] }

ViewsOf(vws, doc) == SelectSeq(vws, LAMBDA x : x.doc = doc)

\* the view a reference points to
ViewAt(vws, ref) == vws[CHOOSE i \in 1..Len(vws) : Ref(vws[i]) = ref]

\* doc.GetElement(id) for the id of a view: the view, or None
GetViewElement(vws, doc, id) ==
    IF \E i \in 1..Len(vws) : Ref(vws[i]) = [doc |-> doc, Id |-> id]
    THEN ViewAt(vws, [doc |-> doc, Id |-> id])
    ELSE None

\* view_types=None, include_nongraphical=False
get_all_views(vws, act, doc) ==
    SelectSeq(ViewsOf(vws, DocOr(doc, act)), LAMBDA x : x.Graphical)

\* get_builtincategory handed a DB.Category object: it is neither a str nor
\* an ElementId, so cat_id stays None and the loop over the built-in
\* categories is skipped
get_builtincategory_category(cat) == None

get_all_referencing_elements_in_view(view) ==
    SelectSeq(view.Elements,
        LAMBDA el :
            /\ el.Category # NoCategory
            /\ LET b == get_builtincategory_category(el.Category)
               IN  b # None /\ b.bicat \in BUILTINCATEGORIES_VIEW)

can_refer_other_views(source_view) == source_view.CanRefer

\* True, or None (FALSE here) when the function falls off its end
is_referring_to(vws, source_view, target_view) ==
    LET doc == source_view.doc
        refs == get_all_referencing_elements_in_view(source_view)
    IN  /\ can_refer_other_views(source_view)
        /\ \E i \in 1..Len(refs) :
              IF refs[i].Target # 0
              THEN LET tvp_view == GetViewElement(vws, doc, refs[i].Target)
                   IN  tvp_view # None /\ tvp_view.Name = target_view.Name
              ELSE refs[i].Name = target_view.Name

\* `all_views or get_all_views(...)`: given is the list handed in, of
\* references to views, which are read when the loop runs
ViewsOrAll(vws, given, doc) ==
    IF given.given /\ given.items # <<>>
    THEN [i \in 1..Len(given.items) |-> ViewAt(vws, given.items[i])]
    ELSE get_all_views(vws, doc, doc)

\* the ids of a list of views
IdsOf(seq) == [i \in 1..Len(seq) |-> seq[i].Id]

\* what the generator yields when it is run to its end on the views vws
yield_referring_views(vws, target_view, given) ==
    IdsOf(SelectSeq(ViewsOrAll(vws, given, target_view.doc),
                    LAMBDA view : is_referring_to(vws, view, target_view)))

NotGiven == [given |-> FALSE, items |-> <<>>]

\* next(yield_referring_views(view), None) is an ElementId, which is truthy,
\* or None
yield_referenced_views(vws, act, doc, given) ==
    IdsOf(SelectSeq(ViewsOrAll(vws, given, DocOr(doc, act)),
        LAMBDA view : yield_referring_views(vws, view, NotGiven) # <<>>))

\* a variant that always collects the views of the document
yield_unreferenced_views_collected(vws, act, doc, given) ==
    IdsOf(SelectSeq(get_all_views(vws, act, doc),
        LAMBDA view : Len(yield_referring_views(vws, view, NotGiven)) = 0))

yield_unreferenced_views(vws, act, doc, given) ==
    IdsOf(SelectSeq(ViewsOrAll(vws, given, DocOr(doc, act)),
        LAMBDA view : Len(yield_referring_views(vws, view, NotGiven)) = 0))

HostAddView(d, kind) ==
    /\ ret = NoCall
    /\ Len(views) < MaxViews
    /\ views' = Append(views,
                       [doc |-> d, Id |-> Len(ViewsOf(views, d)) + 1,
                        Name |-> ViewNames[Len(ViewsOf(views, d)) + 1],
                        CanRefer |-> kind.CanRefer,
                        Graphical |-> kind.Graphical, Elements |-> <<>>])
    /\ UNCHANGED <<active, catVars, sheetVars, projVars, gridVars, linkVars,
                   famVars, worksets, ret, callerVars>>

ViewRefCount(vws, n) ==
    Cardinality({p \in (1..Len(vws)) \X (1..n) : p[2] <= Len(vws[p[1]].Elements)})

\* a callout or reference in view number i of the enumeration that points
\* at view number j, of the same document
HostAddViewReference(i, j, with_target) ==
    /\ ret = NoCall
    /\ i \in 1..Len(views)
    /\ j \in 1..Len(views)
    /\ views[i].doc = views[j].doc
    /\ views[i].CanRefer
    /\ ViewRefCount(views, MaxViewRefs) < MaxViewRefs
    /\ views' = [views EXCEPT ![i].Elements =
                    Append(@, [Category |-> ViewerCategory,
                               Name |-> views[j].Name,
                               Target |-> IF with_target THEN views[j].Id
                                          ELSE 0])]
    /\ UNCHANGED <<active, catVars, sheetVars, projVars, gridVars, linkVars,
                   famVars, worksets, ret, callerVars>>

ViewRefs == {Ref(views[i]) : i \in 1..Len(views)}

\* the all_views arguments: None, an empty list, one view, or the views of
\* all open documents
ViewArgs ==
    {NotGiven, [given |-> TRUE, items |-> <<>>],
     [given |-> TRUE, items |-> RefsOf(views)]} \cup
    {[given |-> TRUE, items |-> <<r>>] : r \in ViewRefs}

\* list(yield_referenced_views(doc, all_views)): the generator is run to its
\* end at once
CallYieldReferencedViews(doc, given) ==
    /\ ret = NoCall
    /\ ret' = [op |-> "yield_referenced_views",
               args |-> [doc |-> doc, all_views |-> given],
               out |-> Returned(yield_referenced_views(views, active, doc,
                                                       given))]
    /\ UNCHANGED <<docVars, callerVars>>

CallYieldUnreferencedViews(doc, given) ==
    /\ ret = NoCall
    /\ ret' = [op |-> "yield_unreferenced_views",
               args |-> [doc |-> doc, all_views |-> given],
               out |-> Returned(yield_unreferenced_views(views, active, doc,
                                                         given))]
    /\ UNCHANGED <<docVars, callerVars>>

NextViews ==
    \/ \E d \in Docs, k \in ViewKinds : HostAddView(d, k)
    \/ \E i, j \in 1..Len(views), t \in BOOLEAN : HostAddViewReference(i, j, t)
    \/ \E d \in {NoDoc, "D2"}, g \in ViewArgs : CallYieldReferencedViews(d, g)
    \/ \E d \in {NoDoc, "D2"}, g \in ViewArgs : CallYieldUnreferencedViews(d, g)
    \/ Discard

SpecViews == InitDocs /\ [][NextViews]_vars

\* what the last call yields, and what the other generator yields on the
\* same arguments and documents
YieldedBy(op) ==
    IF ret.op = op THEN ret.out.val
    ELSE IF op = "yield_referenced_views"
    THEN yield_referenced_views(views, active, ret.args.doc, ret.args.all_views)
    ELSE yield_unreferenced_views(views, active, ret.args.doc,
                                  ret.args.all_views)

\* some view of the document of view v refers to v
IsReferenced(v) ==
    \E i \in 1..Len(views) :
        /\ views[i].doc = v.doc
        /\ is_referring_to(views, views[i], v)

GeneratorFunctions == {"yield_referenced_views", "yield_unreferenced_views"}

CallGetAllViews(doc) ==
    /\ ret = NoCall
    /\ ret' = [op |-> "get_all_views",
               args |-> [doc |-> doc],
               out |-> Returned(RefsOf(get_all_views(views, active, doc)))]
    /\ UNCHANGED <<docVars, callerVars>>

\* yield_referenced_views(doc, all_views) or yield_unreferenced_views(doc,
\* all_views), not iterated yet
CallGenerator(fn, doc, given) ==
    /\ ret = NoCall
    /\ ret' = [op |-> "generator",
               args |-> [fn |-> fn, doc |-> doc, all_views |-> given],
               out |-> Returned([generator |-> fn])]
    /\ UNCHANGED <<docVars, callerVars>>

\* what iterating the result of a call to its end gives on the documents
\* with active document act and views vws
ReadResult(call, act, vws) ==
    IF call.op = "generator"
    THEN IF call.args.fn = "yield_referenced_views"
         THEN yield_referenced_views(vws, act, call.args.doc,
                                     call.args.all_views)
         ELSE yield_unreferenced_views(vws, act, call.args.doc,
                                       call.args.all_views)
    ELSE call.out.val

\* list(result) on the result the caller kept; a generator is used up by it
CallList ==
    /\ ret = NoCall
    /\ kept # NoKept
    /\ kept.call.out.exc = ""
    /\ ret' = [op |-> "list",
               args |-> [result |-> kept.call.out.val],
               out |-> Returned(ReadResult(kept.call, active, views))]
    /\ kept' = NoKept
    /\ UNCHANGED <<docVars, frame>>

NextSnapshot ==
    \/ \E d \in Docs : HostActivate(d)
    \/ \E d \in Docs :
          HostAddView(d, [CanRefer |-> TRUE, Graphical |-> TRUE])
    \/ \E d \in {NoDoc, "D2"} : CallGetAllViews(d)
    \/ \E f \in GeneratorFunctions, d \in {NoDoc, "D2"} :
          CallGenerator(f, d, NotGiven)
    \/ Keep
    \/ CallList
    \/ Discard

SpecSnapshot == InitDocs /\ [][NextSnapshot]_vars

\* the active document and the views in a value of docVars
ActiveIn(docs) == docs[1]
ViewsIn(docs) == docs[9]

(***************************************************************************)
(* C14: what the caller reads from a returned result is what the documents *)
(* held when the call was made, whatever the host changed since; for list  *)
(* results and for the results of the yield_... generator functions.       *)
(***************************************************************************)
C14_ResultsAreSnapshots ==
    [][(kept # NoKept /\ ret'.op = "list")
       => ret'.out.val = ReadResult(kept.call, ActiveIn(kept.docs),
                                    ViewsIn(kept.docs))]_vars

(***************************************************************************)
(* Queries by class.  The class of an element is its most derived class;   *)
(* isinstance and the collector's OfClass accept it for that class and for *)
(* the classes it derives from.                                            *)
(***************************************************************************)
InstanceClasses == {"Wall", "FamilyInstance"}
TypeClasses == {"WallType"}
QueryClasses == {"Wall", "WallType", "Element"}

BaseClasses(class) ==
    IF class \in TypeClasses THEN {class, "ElementType", "Element"}
    ELSE {class, "Element"}

IsInstance(x, class) == class \in BaseClasses(x.Class)

\* view_id=None; `if elements:` is false for None and for an empty list
get_elements_by_class(els, act, element_class, given, doc) ==
    IF given.given /\ Len(given.items) > 0
    THEN Returned(SelectSeq(given.items,
                            LAMBDA x : IsInstance(x, element_class)))
    ELSE Returned(SelectSeq(ElementsOf(els, DocOr(doc, act)),
            LAMBDA x : /\ IsInstance(x, element_class)
                       /\ x.Class \notin TypeClasses))

\* the collector of get_types_by_class has no element type filter
get_types_by_class(els, act, type_class, given, doc) ==
    IF given.given /\ Len(given.items) > 0
    THEN Returned(SelectSeq(given.items,
                            LAMBDA x : IsInstance(x, type_class)))
    ELSE Returned(SelectSeq(ElementsOf(els, DocOr(doc, act)),
                            LAMBDA x : IsInstance(x, type_class)))

CallGetElementsByClass(element_class, given, doc) ==
    /\ ret = NoCall
    /\ ret' = [op |-> "get_elements_by_class",
               args |-> [class |-> element_class, elements |-> given,
                         doc |-> doc],
               out |-> get_elements_by_class(elements, active, element_class,
                                             given, doc)]
    /\ UNCHANGED <<docVars, callerVars>>

CallGetTypesByClass(type_class, given, doc) ==
    /\ ret = NoCall
    /\ ret' = [op |-> "get_types_by_class",
               args |-> [class |-> type_class, elements |-> given,
                         doc |-> doc],
               out |-> get_types_by_class(elements, active, type_class,
                                          given, doc)]
    /\ UNCHANGED <<docVars, callerVars>>

NextClass ==
    \/ \E d \in Docs : HostActivate(d)
    \/ \E d \in Docs, c \in InstanceClasses \cup TypeClasses :
          HostAddElementOf(d, NoCategory, NoParam, c)
    \/ \E c \in QueryClasses, g \in SuppliedArgs, d \in {NoDoc, "D2"} :
          CallGetElementsByClass(c, g, d)
    \/ \E c \in QueryClasses, g \in SuppliedArgs, d \in {NoDoc, "D2"} :
          CallGetTypesByClass(c, g, d)
    \/ Discard

SpecClass == InitDocs /\ [][NextClass]_vars

(***************************************************************************)
(* C15: when the caller supplies a collection, of any size including       *)
(* empty, get_elements_by_class and get_types_by_class return exactly its  *)
(* members that are instances of the class, never elements collected from  *)
(* the document.                                                           *)
(***************************************************************************)
C15_SuppliedFilteredByClass ==
    (/\ ret.op \in {"get_elements_by_class", "get_types_by_class"}
     /\ ret.args.elements.given)
    => ret.out = Returned(SelectSeq(ret.args.elements.items,
                            LAMBDA x : IsInstance(x, ret.args.class)))

(***************************************************************************)
(* The values a parameter takes.                                           *)
(***************************************************************************)
\* str.lower() on the letters that occur in the modelled values
LowerChar(c) ==
    CASE c = "N" -> "n"
      [] c = "O" -> "o"
      [] c = "E" -> "e"
      [] c = "A" -> "a"
      [] c = "B" -> "b"
      [] OTHER -> c

Lower(text) == [i \in 1..Len(text) |-> LowerChar(text[i])]

\* pyrevit.compat.safe_strtype: the text of a value, str(value)
safe_strtype(value) == value.v

\* str.isspace(): at least one character, and every character is whitespace
isspace(text) == Len(text) > 0 /\ \A i \in 1..Len(text) : text[i] = " "

\* Python's == between two of the modelled values: an int and a float with
\* the same number are equal (and hash alike), so a set holds one of them
NumberOf(value) ==
    IF /\ Len(value.v) > 2
       /\ SubSeq(value.v, Len(value.v) - 1, Len(value.v)) = <<".", "0">>
    THEN SubSeq(value.v, 1, Len(value.v) - 2)
    ELSE value.v

PyEq(a, b) ==
    \/ a = b
    \/ /\ a.t \in {"int", "float"}
       /\ b.t \in {"int", "float"}
       /\ NumberOf(a) = NumberOf(b)

\* set.add(value): the set is left alone when it holds an equal value
SetAdd(values, value) ==
    IF \E x \in values : PyEq(x, value) THEN values ELSE values \cup {value}

\* the test that guards the two values.add(value) lines
IsKept(value) ==
    /\ value # PyNone
    /\ Lower(safe_strtype(value)) # <<"n", "o", "n", "e">>

\* a variant whose inner test skips a str made only of whitespace
IsKept_nospace(value) ==
    /\ value # PyNone
    /\ Lower(safe_strtype(value)) # <<"n", "o", "n", "e">>
    /\ ~(value.t = "str" /\ isspace(value.v))

\* the loop over the elements from position i on, `values` being the set
\* built so far; with_space tells which of the two tests above is applied
RECURSIVE RangeFrom(_, _, _, _, _)
RangeFrom(all, param_name, values, i, with_space) ==
    IF i > Len(all) THEN values
    ELSE LET targetparam == LookupParameter(all[i], param_name)
             value == get_param_value(targetparam).val
             keep == IF with_space THEN IsKept(value) ELSE IsKept_nospace(value)
         IN  RangeFrom(all, param_name,
                       IF targetparam # NoParam /\ keep
                       THEN SetAdd(values, value)
                       ELSE values,
                       i + 1, with_space)

get_value_range_nospace(els, act, param_name, doc) ==
    LET all == get_all_elements(els, act, doc)
        Has(e) == LookupParameter(e, param_name) # NoParam
        Val(e) == get_param_value(LookupParameter(e, param_name))
    IN  IF \E i \in 1..Len(all) : Has(all[i]) /\ Val(all[i]).exc # ""
        THEN Raised("UnboundLocalError")
        ELSE Returned(RangeFrom(all, param_name, {}, 1, FALSE))

\* both branches of the inner test add the value: a str that is not made of
\* whitespace in the first, everything else (a str of whitespace included)
\* in the second
get_value_range(els, act, param_name, doc) ==
    LET all == get_all_elements(els, act, doc)
        Has(e) == LookupParameter(e, param_name) # NoParam
        Val(e) == get_param_value(LookupParameter(e, param_name))
    IN  IF \E i \in 1..Len(all) : Has(all[i]) /\ Val(all[i]).exc # ""
        THEN Raised("UnboundLocalError")
        ELSE Returned(RangeFrom(all, param_name, {}, 1, TRUE))

CallGetValueRange(param_name, doc) ==
    /\ ret = NoCall
    /\ ret' = [op |-> "get_value_range",
               args |-> [param_name |-> param_name, doc |-> doc],
               out |-> get_value_range(elements, active, param_name, doc)]
    /\ UNCHANGED <<docVars, callerVars>>

NextValueRange ==
    \/ \E d \in Docs : HostActivate(d)
    \/ \E d \in Docs, p \in Params \cup {NoParam} :
          HostAddElement(d, NoCategory, p)
    \/ \E n \in ParamNames, d \in {NoDoc, "D2"} : CallGetValueRange(n, d)
    \/ \E n \in ParamNames, q \in {<<"a">>}, d \in {NoDoc, "D2"}, p \in BOOLEAN :
          CallGetElementsByParameter(n, q, d, p)
    \/ Discard

SpecValueRange == InitDocs /\ [][NextValueRange]_vars

(***************************************************************************)
(* C16: get_value_range and get_elements_by_parameter raise nothing out of *)
(* the call on any document, whatever the storage type of the parameter    *)
(* (Double, Integer, String, ElementId or None) and whether or not an      *)
(* element has the parameter.                                              *)
(***************************************************************************)
C16_FailSoftly ==
    ret.op \in {"get_value_range", "get_elements_by_parameter"}
    => ret.out.exc = ""

(***************************************************************************)
(* The values of a parameter whose texts are whitespace, the empty string *)
(* or a spelling of "none", next to ordinary ones.                         *)
(***************************************************************************)
RangeValues ==
    { [StorageType |-> "String", Value |-> PyNone],
      [StorageType |-> "String", Value |-> PyStr(<<"a">>)],
      [StorageType |-> "String", Value |-> PyStr(<<>>)],
      [StorageType |-> "String", Value |-> PyStr(<<" ">>)],
      [StorageType |-> "String", Value |-> PyStr(<<" ", " ">>)],
      [StorageType |-> "String", Value |-> PyStr(<<"N", "O", "N", "E">>)],
      [StorageType |-> "String", Value |-> PyStr(<<"N", "o", "n", "e">>)],
      [StorageType |-> "Double", Value |-> PyFloat(<<"1", ".", "0">>)],
      [StorageType |-> "Integer", Value |-> PyInt(<<"1">>)],
      [StorageType |-> "ElementId", Value |-> PyElementId(<<"1">>)],
      [StorageType |-> "None", Value |-> PyNone] }

\* the parameter "P" with each of these values, and one other parameter
RangeParams ==
    {[Name |-> "P", Id |-> 1,
      StorageType |-> pv.StorageType, Value |-> pv.Value] : pv \in RangeValues}
    \cup {[Name |-> "Q", Id |-> 2,
           StorageType |-> "String", Value |-> PyStr(<<" ">>)]}

NextRange ==
    \/ \E d \in Docs : HostActivate(d)
    \/ \E d \in Docs, p \in RangeParams \cup {NoParam} :
          HostAddElement(d, NoCategory, p)
    \/ \E n \in ParamNames, d \in {NoDoc, "D2"} : CallGetValueRange(n, d)
    \/ Discard

SpecRange == InitDocs /\ [][NextRange]_vars

\* the values the parameter named in the call takes on the elements of the
\* document the call read
ValuesTaken ==
    LET all == get_all_elements(elements, active, ret.args.doc)
    IN  {all[i].Param.Value : i \in
           {k \in 1..Len(all) :
              LookupParameter(all[k], ret.args.param_name) # NoParam}}

\* the values the range is to hold: not None, text not "none" in any letter
\* case, not a string made only of whitespace
InRange(value) ==
    /\ value # PyNone
    /\ Lower(value.v) # <<"n", "o", "n", "e">>
    /\ ~(value.t = "str" /\ Len(value.v) > 0
         /\ \A i \in 1..Len(value.v) : value.v[i] = " ")

(***************************************************************************)
(* C21: what get_value_range returns is the set of the distinct values the *)
(* named parameter takes on the elements of the document that have it,     *)
(* without None, without values whose text is "none" in any letter case    *)
(* and without strings made only of whitespace: every returned value is    *)
(* such a value, every such value has an equal one in the result, and no   *)
(* two returned values are equal.                                          *)
(***************************************************************************)
C21_ValueRange ==
    (ret.op = "get_value_range" /\ ret.out.exc = "")
    => /\ \A x \in ret.out.val : x \in ValuesTaken /\ InRange(x)
       /\ \A v \in ValuesTaken :
             InRange(v) => \E x \in ret.out.val : PyEq(x, v)
       /\ \A x, y \in ret.out.val : PyEq(x, y) => x = y

(***************************************************************************)
(* Worksets.  A workset has a name that is unique in its document.         *)
(***************************************************************************)
WorksetNames == {<<"a">>, <<"a", "b">>, <<"b">>}
WorksetQueries == WorksetNames \cup {<<>>, <<"c">>}

WorksetsOf(wss, doc) == SelectSeq(wss, LAMBDA w : w.doc = doc)

\* the loop `for workset in workset_clctr: if <test>: return workset` from
\* position i on, the test being containment or equality; None at its end
RECURSIVE FirstWorkset(_, _, _, _)
FirstWorkset(clctr, workset_name, contains, i) ==
    IF i > Len(clctr) THEN None
    ELSE IF (IF contains THEN Contains(workset_name, clctr[i].Name)
             ELSE workset_name = clctr[i].Name)
    THEN Ref(clctr[i])
    ELSE FirstWorkset(clctr, workset_name, contains, i + 1)

\* a variant whose exact mode also matches by containment
find_workset_contains(wss, act, workset_name, doc, partial) ==
    Returned(FirstWorkset(WorksetsOf(wss, DocOr(doc, act)), workset_name,
                          TRUE, 1))

\* find_workset with a str
find_workset(wss, act, workset_name, doc, partial) ==
    LET workset_clctr == WorksetsOf(wss, DocOr(doc, act))
    IN  IF partial
        THEN Returned(FirstWorkset(workset_clctr, workset_name, TRUE, 1))
        ELSE Returned(FirstWorkset(workset_clctr, workset_name, FALSE, 1))

\* returns what find_workset returns: a workset (truthy) or None
model_has_workset(wss, act, workset_name, partial, doc) ==
    find_workset(wss, act, workset_name, doc, partial)

HostAddWorkset(d, name) ==
    /\ ret = NoCall
    /\ Len(worksets) < MaxWorksets
    /\ \A i \in 1..Len(worksets) :
          worksets[i].doc = d => worksets[i].Name # name
    /\ worksets' = Append(worksets,
                          [doc |-> d, Id |-> Len(WorksetsOf(worksets, d)) + 1,
                           Name |-> name])
    /\ UNCHANGED <<active, catVars, sheetVars, projVars, gridVars, linkVars,
                   famVars, views, ret, callerVars>>

CallFindWorkset(workset_name, doc, partial) ==
    /\ ret = NoCall
    /\ ret' = [op |-> "find_workset",
               args |-> [workset_name |-> workset_name, doc |-> doc,
                         partial |-> partial],
               out |-> find_workset(worksets, active, workset_name, doc,
                                    partial)]
    /\ UNCHANGED <<docVars, callerVars>>

\* model_has_workset(workset_name, doc=doc): partial keeps its default
CallModelHasWorkset(workset_name, doc) ==
    /\ ret = NoCall
    /\ ret' = [op |-> "model_has_workset",
               args |-> [workset_name |-> workset_name, doc |-> doc,
                         partial |-> FALSE],
               out |-> model_has_workset(worksets, active, workset_name,
                                         FALSE, doc)]
    /\ UNCHANGED <<docVars, callerVars>>

NextWorkset ==
    \/ \E d \in Docs : HostActivate(d)
    \/ \E d \in Docs, n \in WorksetNames : HostAddWorkset(d, n)
    \/ \E n \in WorksetQueries, d \in DocArgs, p \in BOOLEAN :
          CallFindWorkset(n, d, p)
    \/ \E n \in WorksetQueries, d \in DocArgs : CallModelHasWorkset(n, d)
    \/ Discard

SpecWorkset == InitDocs /\ [][NextWorkset]_vars

\* the positions, in host enumeration order, of the worksets of the queried
\* document that match the query of the last call
MatchingWorksets ==
    {i \in 1..Len(worksets) :
        /\ worksets[i].doc = DocOr(ret.args.doc, active)
        /\ IF ret.args.partial
           THEN Contains(ret.args.workset_name, worksets[i].Name)
           ELSE worksets[i].Name = ret.args.workset_name}

(***************************************************************************)
(* C17: find_workset with a string returns the first workset, in host      *)
(* enumeration order, whose name equals the query (partial=False) or       *)
(* contains it (partial=True), and None when there is none;                *)
(* model_has_workset with its default partial is truthy exactly when a     *)
(* workset with exactly that name exists.                                  *)
(***************************************************************************)
C17_FindWorkset ==
    ret.op \in {"find_workset", "model_has_workset"}
    => /\ ret.out.exc = ""
       /\ MatchingWorksets = {} => ret.out.val = None
       /\ MatchingWorksets # {} =>
            \E i \in MatchingWorksets :
                /\ \A j \in MatchingWorksets : i <= j
                /\ ret.out.val = Ref(worksets[i])
       /\ ret.op = "model_has_workset" =>
            (ret.out.val # None <=>
               \E i \in 1..Len(worksets) :
                  /\ worksets[i].doc = DocOr(ret.args.doc, active)
                  /\ worksets[i].Name = ret.args.workset_name)

\* two worksets contain the query and only the second equals it: the partial
\* search returned the first
C17_Witness ==
    /\ ret.op = "find_workset"
    /\ ret.args.partial
    /\ Cardinality(MatchingWorksets) = 2
    /\ \E i \in MatchingWorksets :
          /\ worksets[i].Name = ret.args.workset_name
          /\ ret.out.val # Ref(worksets[i])
    /\ ret.out.val # None

(***************************************************************************)
(* Queries on the shared parameter file.                                   *)
(***************************************************************************)
CallGetSharedParamDefinitionFile ==
    /\ ret = NoCall
    /\ ret' = [op |-> "get_sharedparam_definition_file",
               args |-> NoArgs,
               out |-> get_sharedparam_definition_file(sharedFile)]
    /\ UNCHANGED <<docVars, callerVars>>

CallGetDefinedSharedParams ==
    /\ ret = NoCall
    /\ ret' = [op |-> "get_defined_sharedparams",
               args |-> NoArgs,
               out |-> Returned(get_defined_sharedparams(sharedFile))]
    /\ UNCHANGED <<docVars, callerVars>>

CallGetProjectParameters(doc) ==
    /\ ret = NoCall
    /\ ret' = [op |-> "get_project_parameters",
               args |-> [doc |-> doc],
               out |-> Returned(get_project_parameters(isFamily, bindings,
                                   sharedFile, active, doc))]
    /\ UNCHANGED <<docVars, callerVars>>

NextSharedParams ==
    \/ \E d \in Docs : HostActivate(d)
    \/ \E d \in Docs, n \in ParamNames : HostBindParameter(d, n)
    \/ \E sf \in SharedFileStates : HostSetSharedFile(sf)
    \/ CallGetSharedParamDefinitionFile
    \/ CallGetDefinedSharedParams
    \/ \E d \in DocArgs : CallGetProjectParameters(d)
    \/ Discard

SpecSharedParams == InitProj /\ [][NextSharedParams]_vars

(***************************************************************************)
(* C18: while no shared parameter file is defined, or the defined file     *)
(* cannot be opened, get_sharedparam_definition_file raises                *)
(* PyRevitException, get_defined_sharedparams returns an empty list, and   *)
(* get_project_parameters returns one entry per parameter binding of a     *)
(* document that is not a family, none with an external definition, and an *)
(* empty list for a family document.                                       *)
(***************************************************************************)
C18_NoSharedParameterFile ==
    sharedFile \in {"undefined", "unopenable"}
    => /\ ret.op = "get_sharedparam_definition_file"
            => ret.out = Raised("PyRevitException")
       /\ ret.op = "get_defined_sharedparams" => ret.out = Returned(<<>>)
       /\ ret.op = "get_project_parameters"
            => LET d == DocOr(ret.args.doc, active)
               IN  /\ ret.out.exc = ""
                   /\ isFamily[d] => ret.out.val = <<>>
                   /\ ~isFamily[d] =>
                        /\ Len(ret.out.val) = Len(bindings[d])
                        /\ \A i \in 1..Len(bindings[d]) :
                              /\ ret.out.val[i].name = bindings[d][i].Name
                              /\ ret.out.val[i].param_id = bindings[d][i].Id
                              /\ ret.out.val[i].param_ext_def = None

\* the parameters of a project with two bindings, one of them named like a
\* definition of the shared parameter file, while the file cannot be opened
C18_Witness ==
    /\ sharedFile = "unopenable"
    /\ ret.op = "get_project_parameters"
    /\ Len(ret.out.val) = 2
    /\ \E i \in 1..2 : \E k \in 1..Len(SharedDefinitions) :
          ret.out.val[i].name = SharedDefinitions[k].Name

(***************************************************************************)
(* A query call interleaved with the host.  is_sheet_empty reads the       *)
(* document twice: the viewports of the sheet first, the placed schedules  *)
(* second.  Here the call is two steps and the host may edit the sheet in  *)
(* between.  While the call runs, `frame` holds its local variables and,   *)
(* for the comparison with its result, whether the host has edited the     *)
(* document since the call began (changed) and the answers is_sheet_empty  *)
(* has on the document states that have existed since then (during).       *)
(***************************************************************************)
RemoveAt(seq, k) == SubSeq(seq, 1, k - 1) \o SubSeq(seq, k + 1, Len(seq))

\* the frame after the host has brought the sheets and schedules to shs, pl
Interleaved(shs, pl) ==
    IF frame = NoFrame THEN frame
    ELSE [frame EXCEPT
            !.changed = TRUE,
            !.during = @ \cup {is_sheet_empty(shs, pl, frame.viewsheet)}]

\* a view is placed on sheet number i, or its last viewport is deleted
HostEditViewports(i, add) ==
    /\ ret = NoCall
    /\ i \in 1..Len(sheets)
    /\ IF add THEN Len(sheets[i].Viewports) < MaxViewports
              ELSE Len(sheets[i].Viewports) > 0
    /\ sheets' = [sheets EXCEPT ![i].Viewports =
                    IF add THEN Append(@, Len(@) + 1)
                    ELSE SubSeq(@, 1, Len(@) - 1)]
    /\ frame' = Interleaved(sheets', placed)
    /\ UNCHANGED <<active, catVars, placed, projVars, gridVars, linkVars,
                   famVars, worksets, views, ret, kept>>

\* a schedule is placed on sheet number i, or placed schedule number i is
\* deleted
HostEditSchedules(i, add) ==
    /\ ret = NoCall
    /\ IF add THEN i \in 1..Len(sheets) /\ Len(placed) < MaxPlaced
              ELSE i \in 1..Len(placed)
    /\ placed' = IF add
                 THEN Append(placed,
                        [doc |-> sheets[i].doc, OwnerViewId |-> sheets[i].Id,
                         IsTitleblockRevisionSchedule |-> FALSE])
                 ELSE RemoveAt(placed, i)
    /\ frame' = Interleaved(sheets, placed')
    /\ UNCHANGED <<active, catVars, sheets, projVars, gridVars, linkVars,
                   famVars, worksets, views, ret, kept>>

\* a variant of the final test that looks at the viewports only
SheetEmptyResult_views(sheet_views, sheet_scheds) ==
    IF sheet_views # <<>> THEN Returned(FALSE) ELSE Returned(TRUE)

\* `if sheet_views or sheet_scheds: return False` / `return True`
SheetEmptyResult(sheet_views, sheet_scheds) ==
    IF sheet_views # <<>> \/ sheet_scheds # <<>>
    THEN Returned(FALSE)
    ELSE Returned(TRUE)

\* is_sheet_empty up to and including sheet_views = viewsheet.GetAllViewports()
BeginIsSheetEmpty(viewsheet) ==
    /\ ret = NoCall
    /\ frame = NoFrame
    /\ viewsheet \in SheetRefs
    /\ frame' = [pc |-> "get_schedules_on_sheet",
                 viewsheet |-> viewsheet,
                 sheet_views |-> SheetAt(sheets, viewsheet).Viewports,
                 changed |-> FALSE,
                 during |-> {is_sheet_empty(sheets, placed, viewsheet)}]
    /\ UNCHANGED <<docVars, ret, kept>>

\* the rest of is_sheet_empty: get_schedules_on_sheet and the test
EndIsSheetEmpty ==
    /\ frame # NoFrame
    /\ ret' = [op |-> "is_sheet_empty",
               args |-> [viewsheet |-> frame.viewsheet],
               out |-> SheetEmptyResult(frame.sheet_views,
                          get_schedules_on_sheet(placed, frame.viewsheet,
                                                 frame.viewsheet.doc)),
               changed |-> frame.changed,
               during |-> frame.during]
    /\ frame' = NoFrame
    /\ UNCHANGED <<docVars, kept>>

NextInterleaved ==
    \/ HostAddSheet("D1", "A1", FALSE, TRUE)
    \/ \E i \in 1..Len(sheets), a \in BOOLEAN : HostEditViewports(i, a)
    \/ \E i \in 1..MaxPlaced, a \in BOOLEAN : HostEditSchedules(i, a)
    \/ \E v \in SheetRefs : BeginIsSheetEmpty(v)
    \/ EndIsSheetEmpty
    \/ Discard

SpecInterleaved == InitDocs /\ [][NextInterleaved]_vars

(***************************************************************************)
(* C19: a query whose two reads of the document are not interleaved with a *)
(* change by the host returns the result that matches the document at the  *)
(* time of the call (for is_sheet_empty: its viewports and its schedules); *)
(* with a change in between it can return a result that matches no state   *)
(* the document was in during the call.                                    *)
(***************************************************************************)
C19_MatchesWhenNotInterleaved ==
    (ret.op = "is_sheet_empty" /\ ~ret.changed)
    => /\ ret.during = {ret.out}
       /\ ret.out = Returned(EmptySheet(sheets, placed, ret.args.viewsheet))

\* is_sheet_empty answered True although the sheet was not empty in any of
\* the states it went through while the call ran
C19_Witness ==
    /\ ret.op = "is_sheet_empty"
    /\ ret.changed
    /\ ret.out = Returned(TRUE)
    /\ ret.during = {Returned(FALSE)}

=============================================================================
